---------------------------- MODULE Spec2Model ----------------------------
(***************************************************************************)
(* Model of the conversational client (src/c3.py, the variant with the     *)
(* keyword router and the schema-aware handlers) as one sequential state   *)
(* machine: chat_loop reads a line, process_query routes it, every await   *)
(* of an external collaborator (tool channel, language model) is a         *)
(* position of pc at which the environment picks a result or an exception. *)
(*                                                                         *)
(* Texts.  A user line is a sequence of one-character strings, so that     *)
(* str.strip, str.lower and the substring test (kw in text) are computed.  *)
(* A model reply or tool payload is a sequence of lexemes [k, s]: words,   *)
(* whitespace, punctuation, JSON string and number literals, code fences;  *)
(* the regular expressions and json.loads are computed over lexemes.       *)
(* A Python/JSON value is a record [t, s, kids] of one uniform shape.      *)
(***************************************************************************)
EXTENDS Integers, Sequences, FiniteSets, TLC

(***************************************************************************)
(* Characters and user lines                                               *)
(***************************************************************************)
UpperChars == <<"A","B","C","D","E","F","G","H","I","J","K","L","M",
                "N","O","P","Q","R","S","T","U","V","W","X","Y","Z">>

LowerChars == <<"a","b","c","d","e","f","g","h","i","j","k","l","m",
                "n","o","p","q","r","s","t","u","v","w","x","y","z">>

\* str.lower() on one character
LowerChar(c) ==
    IF \E i \in 1..Len(UpperChars) : UpperChars[i] = c
    THEN LowerChars[CHOOSE i \in 1..Len(UpperChars) : UpperChars[i] = c]
    ELSE c

\* str.lower()
Lower(text) == [i \in 1..Len(text) |-> LowerChar(text[i])]

IsSpaceChar(c) == c \in {" ", "\t", "\n"}

\* str.strip(): drop leading and trailing whitespace
Strip(text) ==
    IF \A i \in 1..Len(text) : IsSpaceChar(text[i])
    THEN << >>
    ELSE LET first == CHOOSE i \in 1..Len(text) :
                         /\ ~IsSpaceChar(text[i])
                         /\ \A j \in 1..(i-1) : IsSpaceChar(text[j])
             last  == CHOOSE i \in 1..Len(text) :
                         /\ ~IsSpaceChar(text[i])
                         /\ \A j \in (i+1)..Len(text) : IsSpaceChar(text[j])
         IN  SubSeq(text, first, last)

\* Python's (sub in text) on strings
Contains(text, sub) ==
    \E i \in 0..(Len(text) - Len(sub)) :
        \A j \in 1..Len(sub) : text[i + j] = sub[j]

(***************************************************************************)
(* The router's keyword lists (process_query) and the lines a user types   *)
(***************************************************************************)
insertion_keywords ==
    { <<"i","n","s","e","r","t">>,
      <<"a","d","d">>,
      <<"c","r","e","a","t","e">>,
      <<"n","e","w"," ","r","e","c","o","r","d">>,
      <<"n","e","w"," ","r","o","w">>,
      <<"s","a","v","e">>,
      <<"s","t","o","r","e">> }

deletion_keywords ==
    { <<"d","e","l","e","t","e">>,
      <<"r","e","m","o","v","e">>,
      <<"d","r","o","p">> }

update_keywords ==
    { <<"u","p","d","a","t","e">>,
      <<"m","o","d","i","f","y">>,
      <<"c","h","a","n","g","e">>,
      <<"s","e","t">> }

\* any(keyword in lower_query for keyword in keywords)
AnyKeyword(lower_query, keywords) ==
    \E keyword \in keywords : Contains(lower_query, keyword)

\* Mutant of RouteOf: the update keywords are tested before the deletion keywords.
RouteOf_UpdateFirst(query) ==
    LET lower_query == Lower(query)
    IN  IF AnyKeyword(lower_query, insertion_keywords) THEN "insertion"
        ELSE IF AnyKeyword(lower_query, update_keywords) THEN "update"
        ELSE IF AnyKeyword(lower_query, deletion_keywords) THEN "deletion"
        ELSE "generic"

\* The if / elif / elif chain of process_query: which branch is entered.
RouteOf(query) ==
    LET lower_query == Lower(query)
    IN  IF AnyKeyword(lower_query, insertion_keywords) THEN "insertion"
        ELSE IF AnyKeyword(lower_query, deletion_keywords) THEN "deletion"
        ELSE IF AnyKeyword(lower_query, update_keywords) THEN "update"
        ELSE "generic"

\* Mutant of IsQuit: the comparison without .lower().
IsQuit_CaseSensitive(query) ==
    query \in { <<"q","u","i","t">>, <<"e","x","i","t">> }

\* query.lower() in ('quit', 'exit')
IsQuit(query) ==
    Lower(query) \in { <<"q","u","i","t">>, <<"e","x","i","t">> }

\* Lines typed at the prompt, as input() returns them (before .strip()).
Lines ==
    { <<"q","u","i","t">>,
      <<" ","E","X","I","T"," ">>,
      <<"Q","u","i","t">>,
      <<"q","u","i","t","s">>,
      <<>>,
      <<"A","d","d"," ","x">>,
      <<"r","e","s","e","t">>,
      <<"a","d","d",","," ","d","r","o","p">>,
      <<"d","r","o","p"," ","s","e","t">> }

(***************************************************************************)
(* Lexemes of model replies and tool payloads                              *)
(***************************************************************************)
W(s) == [k |-> "w", s |-> s]      \* a run of word characters (\w+)
N(s) == [k |-> "n", s |-> s]      \* a JSON number literal of digits (also \w+)
S(s) == [k |-> "s", s |-> s]      \* a JSON string literal "s", quotes included
P(s) == [k |-> "p", s |-> s]      \* one punctuation character
SP == [k |-> "ws", s |-> " "]
NL == [k |-> "ws", s |-> "\n"]
FenceJson == [k |-> "f", s |-> "fence-json"]   \* three backticks and the word json
Fence == [k |-> "f", s |-> "fence"]            \* three backticks

IsWs(tok) == tok.k = "ws"
IsWord(tok) == tok.k \in {"w", "n"}

\* first index >= i that holds no whitespace (Len + 1 when there is none)
SkipWs(toks, i) ==
    IF \E j \in i..Len(toks) : ~IsWs(toks[j])
    THEN CHOOSE j \in i..Len(toks) :
             /\ ~IsWs(toks[j])
             /\ \A h \in i..(j-1) : IsWs(toks[h])
    ELSE Len(toks) + 1

\* str.strip() on a lexeme text
StripToks(toks) ==
    IF \A i \in 1..Len(toks) : IsWs(toks[i])
    THEN << >>
    ELSE LET first == SkipWs(toks, 1)
             last  == CHOOSE i \in 1..Len(toks) :
                         /\ ~IsWs(toks[i])
                         /\ \A j \in (i+1)..Len(toks) : IsWs(toks[j])
         IN  SubSeq(toks, first, last)

(***************************************************************************)
(* Python values: what json.loads returns, and None                        *)
(***************************************************************************)
Val(t, s, kids) == [t |-> t, s |-> s, kids |-> kids]
PyNone == Val("none", "", << >>)
PyStr(s) == Val("str", s, << >>)
PyNum(s) == Val("num", s, << >>)
PyLit(s) == Val(s, "", << >>)               \* "true", "false", "null"
PyDict(kids) == Val("dict", "", kids)        \* kids: <<[k |-> key, v |-> value], ...>>
PyList(kids) == Val("list", "", kids)        \* kids: <<[k |-> "", v |-> item], ...>>
KV(key, v) == [k |-> key, v |-> v]

IsDict(v) == v.t = "dict"

\* bool(v): Python truthiness
Truthy(v) ==
    CASE v.t = "none" -> FALSE
      [] v.t = "null" -> FALSE
      [] v.t = "false" -> FALSE
      [] v.t = "true" -> TRUE
      [] v.t = "str" -> v.s # ""
      [] v.t = "num" -> v.s # "0"
      [] OTHER -> Len(v.kids) > 0

\* key in d, for a dict d
HasKey(d, key) == \E i \in 1..Len(d.kids) : d.kids[i].k = key

\* d[key] / d.get(key), for a dict d that has the key
Get(d, key) == d.kids[CHOOSE i \in 1..Len(d.kids) : d.kids[i].k = key].v

\* d[key] = v: replaces the value of a present key, appends an absent one
DictPut(kids, key, v) ==
    IF \E i \in 1..Len(kids) : kids[i].k = key
    THEN [i \in 1..Len(kids) |-> IF kids[i].k = key THEN KV(key, v) ELSE kids[i]]
    ELSE Append(kids, KV(key, v))

(***************************************************************************)
(* json.loads over lexemes: recursive descent, whitespace skipped, the     *)
(* whole text consumed                                                     *)
(***************************************************************************)
JFail == [ok |-> FALSE, v |-> PyNone, i |-> 0]
JOk(v, i) == [ok |-> TRUE, v |-> v, i |-> i]

RECURSIVE ParseValue(_, _)
RECURSIVE ParseMembers(_, _, _)
RECURSIVE ParseElements(_, _, _)

\* one JSON value starting at or after index i
ParseValue(toks, i) ==
    LET j == SkipWs(toks, i)
    IN  IF j > Len(toks) THEN JFail
        ELSE LET tok == toks[j]
             IN  CASE tok.k = "s" -> JOk(PyStr(tok.s), j + 1)
                   [] tok.k = "n" -> JOk(PyNum(tok.s), j + 1)
                   [] tok.k = "w" /\ tok.s \in {"true", "false", "null"} ->
                          JOk(PyLit(tok.s), j + 1)
                   [] tok = P("{") ->
                          LET h == SkipWs(toks, j + 1)
                          IN  IF h <= Len(toks) /\ toks[h] = P("}")
                              THEN JOk(PyDict(<< >>), h + 1)
                              ELSE ParseMembers(toks, j + 1, << >>)
                   [] tok = P("[") ->
                          LET h == SkipWs(toks, j + 1)
                          IN  IF h <= Len(toks) /\ toks[h] = P("]")
                              THEN JOk(PyList(<< >>), h + 1)
                              ELSE ParseElements(toks, j + 1, << >>)
                   [] OTHER -> JFail

\* "key": value pairs up to the closing brace; a repeated key keeps the last value
ParseMembers(toks, i, acc) ==
    LET j == SkipWs(toks, i)
        c == SkipWs(toks, j + 1)
    IN  IF j > Len(toks) \/ toks[j].k # "s" THEN JFail
        ELSE IF c > Len(toks) \/ toks[c] # P(":") THEN JFail
        ELSE LET r == ParseValue(toks, c + 1)
             IN  IF ~r.ok THEN JFail
                 ELSE LET e == SkipWs(toks, r.i)
                          acc2 == DictPut(acc, toks[j].s, r.v)
                      IN  IF e > Len(toks) THEN JFail
                          ELSE IF toks[e] = P("}") THEN JOk(PyDict(acc2), e + 1)
                          ELSE IF toks[e] = P(",") THEN ParseMembers(toks, e + 1, acc2)
                          ELSE JFail

\* array items up to the closing bracket
ParseElements(toks, i, acc) ==
    LET r == ParseValue(toks, i)
    IN  IF ~r.ok THEN JFail
        ELSE LET e == SkipWs(toks, r.i)
                 acc2 == Append(acc, KV("", r.v))
             IN  IF e > Len(toks) THEN JFail
                 ELSE IF toks[e] = P("]") THEN JOk(PyList(acc2), e + 1)
                 ELSE IF toks[e] = P(",") THEN ParseElements(toks, e + 1, acc2)
                 ELSE JFail

\* the value r parsed at the head of toks, provided nothing but whitespace follows
WholeText(toks, r) == IF r.ok /\ SkipWs(toks, r.i) > Len(toks) THEN r ELSE JFail

\* json.loads(text): ok = FALSE stands for json.JSONDecodeError
json_loads(toks) == WholeText(toks, ParseValue(toks, 1))

(***************************************************************************)
(* Substring tests on the contents of string literals.  A string literal   *)
(* is one lexeme, so (sub in s) is tabulated for the literals that the     *)
(* replies and payloads of this model use.                                 *)
(***************************************************************************)
SubstringFacts ==
    { <<"use TOOL and PARAMS", "TOOL">>,
      <<"use TOOL and PARAMS", "PARAMS">>,
      <<"Successfully inserted row into 'Customer'", "successfully">>,
      <<"Successfully inserted row into 'Orders'", "successfully">>,
      <<"Successfully deleted row(s) from 'Customer'", "successfully">>,
      <<"Successfully updated row(s) in 'Customer'", "successfully">>,
      <<"Error", "error">> }

\* sub in s.lower() for the needles the client searches (all lower case),
\* sub in s for the parser's upper-case keys
StrContains(s, sub) == s = sub \/ <<s, sub>> \in SubstringFacts

(***************************************************************************)
(* parse_tool_response                                                     *)
(***************************************************************************)
\* re.search(r"TOOL:\s*(\w+)", text): index of the captured word, 0 for no match
ToolMatch(text) ==
    LET Hit(i) == /\ text[i] = W("TOOL")
                  /\ text[i + 1] = P(":")
                  /\ SkipWs(text, i + 2) <= Len(text)
                  /\ IsWord(text[SkipWs(text, i + 2)])
        starts == {i \in 1..(Len(text) - 2) : Hit(i)}
    IN  IF starts = {} THEN 0
        ELSE SkipWs(text, (CHOOSE i \in starts : \A h \in starts : i <= h) + 2)

\* index of the last closing brace of the text, 0 when there is none
LastBrace(text) ==
    LET closes == {i \in 1..Len(text) : text[i] = P("}")}
    IN  IF closes = {} THEN 0 ELSE CHOOSE i \in closes : \A h \in closes : h <= i

\* re.search(r"PARAMS:\s*(\{.*\})", text, re.DOTALL): the captured group as
\* <<first, last>> indices, <<0, 0>> for no match.  The group is greedy: it runs
\* from the brace after the marker to the last closing brace of the whole text.
ParamsMatch(text) ==
    LET Hit(i) == /\ text[i] = W("PARAMS")
                  /\ text[i + 1] = P(":")
                  /\ SkipWs(text, i + 2) <= Len(text)
                  /\ text[SkipWs(text, i + 2)] = P("{")
                  /\ LastBrace(text) > SkipWs(text, i + 2)
        starts == {i \in 1..(Len(text) - 2) : Hit(i)}
    IN  IF starts = {} THEN <<0, 0>>
        ELSE <<SkipWs(text, (CHOOSE i \in starts : \A h \in starts : i <= h) + 2),
               LastBrace(text)>>

Parsed(raised, tool, params) == [raised |-> raised, tool |-> tool, params |-> params]
NoDirective == Parsed("", PyNone, PyNone)

\* 'KEY' in json_response: "yes", "no", or "TypeError" for a value that is no container
PyIn(key, v) ==
    CASE v.t = "dict" -> IF HasKey(v, key) THEN "yes" ELSE "no"
      [] v.t = "list" -> IF \E i \in 1..Len(v.kids) : v.kids[i].v = PyStr(key)
                         THEN "yes" ELSE "no"
      [] v.t = "str" -> IF StrContains(v.s, key) THEN "yes" ELSE "no"
      [] OTHER -> "TypeError"

\* cleaned_text[7:] when cleaned_text.startswith(three backticks and json)
DropFenceStart(cleaned) ==
    IF Len(cleaned) > 0 /\ cleaned[1] = FenceJson THEN Tail(cleaned) ELSE cleaned

\* cleaned_text[:-3] when cleaned_text.endswith(three backticks)
DropFenceEnd(cleaned) ==
    IF Len(cleaned) > 0 /\ cleaned[Len(cleaned)] = Fence
    THEN SubSeq(cleaned, 1, Len(cleaned) - 1) ELSE cleaned

\* the reply stripped, its code fence removed, stripped again
CleanedText(response_text) ==
    StripToks(DropFenceEnd(DropFenceStart(StripToks(response_text))))

\* `if 'TOOL' in json_response and 'PARAMS' in json_response: return ...`
\* given the two membership tests' outcomes
FallbackKeys(json_response, hasTool, hasParams) ==
    IF hasTool = "TypeError" THEN Parsed("TypeError", PyNone, PyNone)
    ELSE IF hasTool = "no" THEN NoDirective
    ELSE IF hasParams = "no" THEN NoDirective
    ELSE IF ~IsDict(json_response)                            \* json_response['TOOL']
         THEN Parsed("TypeError", PyNone, PyNone)
    ELSE Parsed("", Get(json_response, "TOOL"), Get(json_response, "PARAMS"))

\* the body of the try, given what json.loads(cleaned_text) gave
FallbackResult(loaded) ==
    IF ~loaded.ok THEN NoDirective                            \* except JSONDecodeError
    ELSE FallbackKeys(loaded.v, PyIn("TOOL", loaded.v), PyIn("PARAMS", loaded.v))

\* the fallback grammar: the whole reply, code fence removed, as a JSON object
ParseJsonFallback(response_text) ==
    FallbackResult(json_loads(CleanedText(response_text)))

\* the primary grammar's return, given json.loads of the PARAMS group
PrimaryResult(tool_name, params) ==
    IF params.ok THEN Parsed("", PyStr(tool_name), params.v)
    ELSE Parsed("JSONDecodeError", PyNone, PyNone)            \* json.loads, not in a try

\* `if tool_match and params_match:` of parse_tool_response
PrimaryOrFallback(response_text, tool_match, params_match) ==
    IF tool_match # 0 /\ params_match[1] # 0
    THEN PrimaryResult(response_text[tool_match].s,
                       json_loads(SubSeq(response_text, params_match[1], params_match[2])))
    ELSE ParseJsonFallback(response_text)

\* parse_tool_response(response_text): raised = "" is a normal return of
\* (tool, params); otherwise the exception that leaves the function
parse_tool_response(response_text) ==
    PrimaryOrFallback(response_text, ToolMatch(response_text), ParamsMatch(response_text))

(***************************************************************************)
(* Replies of the language model (llm_response.content), as lexeme texts   *)
(***************************************************************************)
Directive(tool, params) == <<W("TOOL"), P(":"), SP, W(tool), NL, W("PARAMS"), P(":"), SP>> \o params

J_TableCustomer == <<P("{"), S("table"), P(":"), SP, S("Customer"), P("}")>>
J_Empty == <<P("{"), P("}")>>
J_DataJohn == <<P("{"), S("name"), P(":"), SP, S("John"), P(","), SP,
                S("age"), P(":"), SP, N("30"), P("}")>>
J_WhereId == <<P("{"), S("id"), P(":"), SP, N("1"), P("}")>>

\* plain text, no directive
R_Plain == <<W("Hello"), SP, W("there")>>
\* TOOL: get_data / PARAMS: {"table": "Customer"}
R_GetData == Directive("get_data", J_TableCustomer)
\* TOOL: get_data / PARAMS: {}
R_GetDataEmpty == Directive("get_data", J_Empty)
\* TOOL: insert_data / PARAMS: {"table": "Customer", "data": {"name": "John", "age": 30}}
R_Insert == Directive("insert_data",
                <<P("{"), S("table"), P(":"), SP, S("Customer"), P(","), SP,
                  S("data"), P(":"), SP>> \o J_DataJohn \o <<P("}")>>)
\* TOOL: insert_data / PARAMS: {"data": {"name": "John", "age": 30}}   (no table)
R_InsertNoTable == Directive("insert_data",
                <<P("{"), S("data"), P(":"), SP>> \o J_DataJohn \o <<P("}")>>)
\* TOOL: insert_data / PARAMS: {}
R_InsertEmpty == Directive("insert_data", J_Empty)
\* TOOL: delete_data / PARAMS: {"table": "Customer", "where": {"id": 1}}
R_Delete == Directive("delete_data",
                <<P("{"), S("table"), P(":"), SP, S("Customer"), P(","), SP,
                  S("where"), P(":"), SP>> \o J_WhereId \o <<P("}")>>)
\* TOOL: update_data / PARAMS: {"table": "Customer", "data": {...}, "where": {"id": 1}}
R_Update == Directive("update_data",
                <<P("{"), S("table"), P(":"), SP, S("Customer"), P(","), SP,
                  S("data"), P(":"), SP>> \o J_DataJohn \o <<P(","), SP,
                  S("where"), P(":"), SP>> \o J_WhereId \o <<P("}")>>)
\* Sure. / TOOL: get_data / PARAMS: {"table": "Customer"} / Done (x)
R_Surrounded == <<W("Sure"), P("."), NL>> \o R_GetData
                    \o <<NL, W("Done"), SP, P("("), W("x"), P(")")>>
\* TOOL: get_data / PARAMS: {"table": "Customer"} / Note {x}
R_TrailingBrace == R_GetData \o <<NL, W("Note"), SP, P("{"), W("x"), P("}")>>
\* TOOL: get_data / PARAMS: {"table": Customer}        (the value is not quoted)
R_BadJson == Directive("get_data",
                <<P("{"), S("table"), P(":"), SP, W("Customer"), P("}")>>)
\* TOOL: get_data                                        (no PARAMS part)
R_ToolOnly == <<W("TOOL"), P(":"), SP, W("get_data")>>
\* fenced {"TOOL": "get_data", "PARAMS": {"table": "Customer"}}
R_FencedJson == <<FenceJson, NL, P("{"), S("TOOL"), P(":"), SP, S("get_data"), P(","), SP,
                  S("PARAMS"), P(":"), SP>> \o J_TableCustomer \o <<P("}"), NL, Fence>>
\* {"TOOL": "get_schema", "PARAMS": {}}
R_Json == <<P("{"), S("TOOL"), P(":"), SP, S("get_schema"), P(","), SP,
            S("PARAMS"), P(":"), SP>> \o J_Empty \o <<P("}")>>
\* {"TOOL": "get_data"}                                  (lacks PARAMS)
R_JsonNoParams == <<P("{"), S("TOOL"), P(":"), SP, S("get_data"), P("}")>>
\* 42
R_Number == <<N("42")>>
\* [1]
R_List == <<P("["), N("1"), P("]")>>
\* "use TOOL and PARAMS"                                 (a JSON string)
R_String == <<S("use TOOL and PARAMS")>>
\* {"answer": "Hi"}
R_AnswerJson == <<P("{"), S("answer"), P(":"), SP, S("Hi"), P("}")>>
\* TOOL: get_data / PARAMS: {"table": "Orders", "limit": 5}
R_GetOrders == Directive("get_data",
                <<P("{"), S("table"), P(":"), SP, S("Orders"), P(","), SP,
                  S("limit"), P(":"), SP, N("5"), P("}")>>)
\* {"TOOL": "get_data", "PARAMS": null}
R_JsonNullParams == <<P("{"), S("TOOL"), P(":"), SP, S("get_data"), P(","), SP,
                      S("PARAMS"), P(":"), SP, W("null"), P("}")>>
\* {"message": 5}
R_MessageNumber == <<P("{"), S("message"), P(":"), SP, N("5"), P("}")>>

Replies ==
    { R_Plain, R_GetData, R_GetDataEmpty, R_Insert, R_InsertNoTable, R_InsertEmpty,
      R_Delete, R_Update, R_Surrounded, R_TrailingBrace, R_BadJson, R_ToolOnly,
      R_FencedJson, R_Json, R_JsonNoParams, R_Number, R_List, R_String,
      R_AnswerJson, R_MessageNumber, R_GetOrders, R_JsonNullParams }

(***************************************************************************)
(* Tool results (CallToolResult.content) and what the client reads of them *)
(***************************************************************************)
TextItem(text) == [hasText |-> TRUE, text |-> text]
OtherItem == [hasText |-> FALSE, text |-> << >>]        \* e.g. an image content

JObject(members) == <<P("{")>> \o members \o <<P("}")>>
Member(key, value) == <<S(key), P(":"), SP>> \o value

\* content = []
TR_Empty == << >>
\* content = [image]
TR_NoText == <<OtherItem>>
\* {"object": "list", "table": "Customer", "rows": []}
TR_List == <<TextItem(JObject(Member("object", <<S("list")>>) \o <<P(","), SP>>
                 \o Member("table", <<S("Customer")>>) \o <<P(","), SP>>
                 \o Member("rows", <<P("["), P("]")>>)))>>
\* {"object": "insert_result", "message": "Successfully inserted row into 'Customer'"}
TR_InsertOk == <<TextItem(JObject(Member("object", <<S("insert_result")>>) \o <<P(","), SP>>
                 \o Member("message", <<S("Successfully inserted row into 'Customer'")>>)))>>
\* {"object": "delete_result", "message": "Successfully deleted row(s) from 'Customer'"}
TR_DeleteOk == <<TextItem(JObject(Member("object", <<S("delete_result")>>) \o <<P(","), SP>>
                 \o Member("message", <<S("Successfully deleted row(s) from 'Customer'")>>)))>>
\* {"object": "update_result", "message": "Successfully updated row(s) in 'Customer'"}
TR_UpdateOk == <<TextItem(JObject(Member("object", <<S("update_result")>>) \o <<P(","), SP>>
                 \o Member("message", <<S("Successfully updated row(s) in 'Customer'")>>)))>>
\* {"message": "constraint violation"}
TR_Constraint == <<TextItem(JObject(Member("message", <<S("constraint violation")>>)))>>
\* {"message": "Row inserted into 'Customer'"}            (the reply of src/s2.py)
TR_RowInserted == <<TextItem(JObject(Member("message", <<S("Row inserted into 'Customer'")>>)))>>
\* {"object": "insert_result"}                             (no message)
TR_TagOnly == <<TextItem(JObject(Member("object", <<S("insert_result")>>)))>>
\* [image, "Error executing tool"]                         (not JSON)
TR_ErrorText == <<OtherItem, TextItem(<<W("Error"), SP, W("executing"), SP, W("tool")>>)>>
\* "done"                                                  (not JSON)
TR_PlainText == <<TextItem(<<W("done")>>)>>
\* []                                                      (JSON, not an object)
TR_JsonArray == <<TextItem(<<P("["), P("]")>>)>>

ToolResults ==
    { TR_Empty, TR_NoText, TR_List, TR_InsertOk, TR_DeleteOk, TR_UpdateOk,
      TR_Constraint, TR_RowInserted, TR_TagOnly, TR_ErrorText, TR_PlainText,
      TR_JsonArray }

\* {"version": "1.0", "schema": {"Customer": {"type": "table"}}}
TR_Schema == <<TextItem(JObject(Member("version", <<S("1.0")>>) \o <<P(","), SP>>
                 \o Member("schema", JObject(Member("Customer",
                        JObject(Member("type", <<S("table")>>)))))))>>
\* {}
TR_EmptyObject == <<TextItem(<<P("{"), P("}")>>)>>

\* What the get_schema tool can answer the client's schema fetch with.
SchemaResults == { TR_Schema, TR_EmptyObject, TR_Empty, TR_NoText, TR_ErrorText }

\* The loop over tool_result.content: the text of the first item that has one, "" otherwise
ResultText(content) ==
    IF \E i \in 1..Len(content) : content[i].hasText
    THEN content[CHOOSE i \in 1..Len(content) :
                     /\ content[i].hasText
                     /\ \A h \in 1..(i-1) : ~content[h].hasText].text
    ELSE << >>

\* needle in text.lower(), for a lexeme text
TextContains(text, needle) == \E i \in 1..Len(text) : StrContains(text[i].s, needle)

(***************************************************************************)
(* Answers returned by process_query and printed by chat_loop              *)
(***************************************************************************)
Answer(kind, op, table, count, text) ==
    [kind |-> kind, op |-> op, table |-> table, count |-> count, text |-> text]
NoAnswer == Answer("none", "", "", 0, << >>)

\* the object tag each interpreter accepts as a success marker
ResultTag(op) ==
    CASE op = "insert_data" -> "insert_result"
      [] op = "delete_data" -> "delete_result"
      [] op = "update_data" -> "update_result"

\* Mutant of InterpretResult: a payload that parses as JSON counts as success
\* whatever it holds.
InterpretResult_AnyJsonOk(op, params, result_text, result_json) ==
    LET table_name == IF HasKey(params, "table") THEN Get(params, "table").s ELSE "table"
        inserted_data == IF HasKey(params, "data") THEN Get(params, "data") ELSE PyDict(<< >>)
        record_count == IF op = "insert_data" THEN Len(inserted_data.kids) ELSE 0
    IN  IF result_json.ok \/ ~(TextContains(result_text, "error")
                                  \/ TextContains(result_text, "failed"))
        THEN Answer("op_ok", op, table_name, record_count, << >>)
        ELSE Answer("op_failed", op, table_name, 0, result_text)

\* _process_insertion_result / _process_deletion_result / _process_update_result
\* after the loop over the content, given json.loads(result_text).
\* kind "raised" stands for the AttributeError / TypeError that leaves the
\* interpreter (params or the payload is no dict, message is no string).
InterpretResult(op, params, result_text, result_json) ==
    LET table_name == IF HasKey(params, "table") THEN Get(params, "table").s ELSE "table"
        inserted_data == IF HasKey(params, "data") THEN Get(params, "data") ELSE PyDict(<< >>)
        record_count == IF op = "insert_data" THEN Len(inserted_data.kids) ELSE 0
        message == IF HasKey(result_json.v, "message")
                   THEN Get(result_json.v, "message") ELSE PyStr("")
        object == IF HasKey(result_json.v, "object")
                  THEN Get(result_json.v, "object") ELSE PyNone
        failed == Answer("op_failed", op, table_name, 0, result_text)
        raised == Answer("raised", op, "", 0, << >>)
        \* len(inserted_data) is taken on the success paths only; the replies of
        \* this model give data as an object or omit it
        ok == IF op = "insert_data" /\ inserted_data.t \notin {"dict", "list", "str"}
              THEN raised
              ELSE Answer("op_ok", op, table_name, record_count, << >>)
    IN  IF ~IsDict(params) THEN raised
        ELSE IF result_json.ok
        THEN IF ~IsDict(result_json.v) \/ message.t # "str" THEN raised
             ELSE IF StrContains(message.s, "successfully") \/ object = PyStr(ResultTag(op))
                  THEN ok ELSE failed
        ELSE IF TextContains(result_text, "error") \/ TextContains(result_text, "failed")
             THEN failed ELSE ok

process_result(op, tool_result, params) ==
    InterpretResult(op, params, ResultText(tool_result), json_loads(ResultText(tool_result)))

(***************************************************************************)
(* Pieces of MCPClient.get_schema and MCPClient.process_query              *)
(***************************************************************************)
MAX_MEMORY == 10

\* generic turns (appends of one exchange) explored per session
MaxGenericTurns == 11

\* get_schema: `if self.cached_schema and not force_refresh`
CacheHit(cached, force_refresh) == Truthy(cached) /\ ~force_refresh

\* get_schema after the loop over the content, given json.loads(schema_text)
SchemaValue(schema_text, loaded) ==
    IF schema_text = << >> THEN PyNone
    ELSE IF loaded.ok THEN loaded.v
    ELSE PyDict(<<KV("raw_schema", PyStr("schema_text"))>>)

\* get_schema after call_tool returned: the value assigned to self.cached_schema
\* and returned, PyNone when the result carries no text (nothing is assigned)
SchemaFromResult(tool_result) ==
    SchemaValue(ResultText(tool_result), json_loads(ResultText(tool_result)))

\* the operation each specialized handler expects in the model's reply
ExpectedTool(r) ==
    CASE r = "insertion" -> "insert_data"
      [] r = "deletion" -> "delete_data"
      [] r = "update" -> "update_data"

Message(role, n) == [role |-> role, n |-> n]

\* Mutant of TrimMemory: the slice is one message short, [-(MAX_MEMORY*2 - 1):].
TrimMemory_OddWindow(mem) ==
    IF Len(mem) > MAX_MEMORY * 2
    THEN SubSeq(mem, Len(mem) - (MAX_MEMORY * 2 - 1) + 1, Len(mem))
    ELSE mem

\* Mutant of TrimMemory: the slice keeps the oldest messages, [:MAX_MEMORY*2].
TrimMemory_KeepOldest(mem) ==
    IF Len(mem) > MAX_MEMORY * 2 THEN SubSeq(mem, 1, MAX_MEMORY * 2) ELSE mem

\* self.memory[-MAX_MEMORY*2:] when len(self.memory) > MAX_MEMORY * 2
TrimMemory(mem) ==
    IF Len(mem) > MAX_MEMORY * 2
    THEN SubSeq(mem, Len(mem) - MAX_MEMORY * 2 + 1, Len(mem))
    ELSE mem

\* Mutant of StoreExchange: the assistant message is not appended.
StoreExchange_UserOnly(mem, n) == TrimMemory(mem \o <<Message("user", n + 1)>>)

\* memory.append(HumanMessage(query)); memory.append(llm_response); trim.
\* n is the number of messages appended before; the n-th appended message is
\* tagged n so that its position can be followed.
StoreExchange(mem, n) ==
    TrimMemory(mem \o <<Message("user", n + 1), Message("assistant", n + 2)>>)

\* the text of a JSON string value used as the reply (single words in this model)
LexStr(s) == IF s = "" THEN << >> ELSE <<W(s)>>

CleanupKeys == <<"response", "answer", "content", "message">>

\* the loop over CleanupKeys: the value of the first key present, str = FALSE
\* when that value is no string; the reply itself when no key is present
Unwrap(response_text, json_response) ==
    LET hits == {i \in 1..Len(CleanupKeys) : HasKey(json_response, CleanupKeys[i])}
        value == Get(json_response, CleanupKeys[CHOOSE i \in hits : \A h \in hits : i <= h])
    IN  IF hits = {} THEN [str |-> TRUE, text |-> response_text]
        ELSE IF value.t = "str" THEN [str |-> TRUE, text |-> LexStr(value.s)]
        ELSE [str |-> FALSE, text |-> << >>]

\* the try around json.loads(response_text)
UnwrapLoaded(response_text, loaded) ==
    IF loaded.ok THEN Unwrap(response_text, loaded.v)
    ELSE [str |-> TRUE, text |-> response_text]            \* except JSONDecodeError: pass

\* response_text.strip().startswith('{') and response_text.strip().endswith('}')
LooksLikeObject(stripped) ==
    /\ Len(stripped) > 0
    /\ stripped[1] = P("{")
    /\ stripped[Len(stripped)] = P("}")

\* "Clean up response if it's in JSON format": the reply unwrapped from
\* {"response" | "answer" | "content" | "message": value}
Cleanup(response_text) ==
    IF LooksLikeObject(StripToks(response_text))
    THEN UnwrapLoaded(response_text, json_loads(response_text))
    ELSE [str |-> TRUE, text |-> response_text]

\* parse_tool_response applied to the cleaned reply; re.search raises
\* TypeError on a reply that is no string
ParseCleaned(cleaned) ==
    IF cleaned.str THEN parse_tool_response(cleaned.text)
    ELSE Parsed("TypeError", PyNone, PyNone)

\* Mutant of DefaultFill: the defaults are assigned whether or not the key is there.
DefaultFill_Overwrite(params) ==
    IF IsDict(params)
    THEN PyDict(DictPut(DictPut(params.kids, "table", PyStr("Customer")),
                        "schema", PyStr("SAC_1")))
    ELSE params

\* "Inject default table and schema if not provided"
DefaultFill(params) ==
    IF IsDict(params)
    THEN LET withTable == IF HasKey(params, "table") THEN params.kids
                          ELSE DictPut(params.kids, "table", PyStr("Customer"))
             withSchema == IF \E i \in 1..Len(withTable) : withTable[i].k = "schema"
                           THEN withTable
                           ELSE DictPut(withTable, "schema", PyStr("SAC_1"))
         IN  PyDict(withSchema)
    ELSE params

ToolCall(name, params) == [name |-> name, params |-> params]
NoCall == ToolCall(PyNone, PyNone)

\* Mutant of process_tool_result: every non-empty payload goes to the model.
process_tool_result_AlwaysInterpret(tool_result) ==
    IF ResultText(tool_result) = << >> THEN Answer("no_data", "", "", 0, << >>)
    ELSE Answer("interpret", "", "", 0, << >>)

\* _process_tool_result up to its model call: the answer it returns without
\* one, or kind "interpret" when it goes on to call the model
process_tool_result(tool_result) ==
    LET result_text == ResultText(tool_result)
    IN  IF result_text = << >> THEN Answer("no_data", "", "", 0, << >>)
        ELSE IF ~json_loads(result_text).ok THEN Answer("raw", "", "", 0, result_text)
        ELSE Answer("interpret", "", "", 0, << >>)

\* what llm.invoke is handed: whether a SystemMessage leads, the messages of
\* memory that follow it, and what the final HumanMessage is built from
Request(system, context, input, schema, tool) ==
    [system |-> system, context |-> context,
     human |-> [input |-> input, schema |-> schema, tool |-> tool]]
NoRequest == Request(FALSE, << >>, << >>, PyNone, PyNone)

\* [SystemMessage(system_prompt)] + self.memory + [HumanMessage(query)]
GenericRequest(mem, q) == Request(TRUE, mem, q, PyNone, PyNone)

\* Mutant of HandlerRequest: the handler sends the memory along, as the generic path does.
HandlerRequest_WithMemory(mem, user_input, schema) ==
    Request(FALSE, mem, user_input, schema, PyNone)

\* [HumanMessage(schema_prompt)] of the three handlers: the prompt embeds
\* json.dumps(schema_data) and user_input
HandlerRequest(mem, user_input, schema) ==
    Request(FALSE, << >>, user_input, schema, PyNone)

\* [HumanMessage(interpretation_prompt)]: the query, the tool's name and its data
InterpretationRequest(original_query, tool_name) ==
    Request(FALSE, << >>, original_query, PyNone, tool_name)

\* Mutant of AfterTurn: no except clause, an exception leaves the loop.
AfterTurn_Uncaught(how) == IF how = "error" THEN "closed" ELSE "read"

\* chat_loop: where the loop goes after a turn returned ("answer") or raised
\* ("error"): both the print and the except clause fall through to the next
\* iteration of `while True`
AfterTurn(how) == "read"

\* answers of the second model call
Interpretations == { R_Plain, R_GetData }

(***************************************************************************)
(* State                                                                   *)
(***************************************************************************)
VARIABLES
    line,           \* the line input() returned last, as typed
    pc,             \* where the single control thread is: "read" (input()),
                    \* "get_schema", "handler_llm", "handler_tool", "llm1",
                    \* "tool", "llm2" (awaiting that external call), "closed"
    memory,         \* self.memory
    cached_schema,  \* self.cached_schema
    query,          \* the stripped line of the current turn
    route,          \* branch of the keyword router entered in this turn
    handler,        \* specialized handler that ran in this turn, "none" otherwise
    schema_data,    \* what get_schema() returned in this turn
    response_text,  \* content of the latest model reply of this turn
    parse_arg,      \* what parse_tool_response was applied to in this turn
    parsed,         \* and what it returned or raised ("unset": not called)
    call,           \* the directive's tool call issued in this turn
    tool_content,   \* tool_result.content of that call, once it returned
    interpretation, \* interpretation_response.content of model call #2
    lc_messages,    \* the latest request handed to llm.invoke in this turn
    events,         \* history of this turn: external calls, appends, the end
    appended,       \* history: number of messages ever appended to memory
    turn_base,      \* history: the value of appended when this turn started
    outcome,        \* "none" while a turn runs, then "answer" or "error"
    error,          \* the exception chat_loop caught
    answer,         \* the string process_query returned
    \* the session around the chat loop (main, connect_to_server, cleanup)
    exit_stack,     \* self.exit_stack: the contexts entered, in order
    resources,      \* per resource: times acquired and times released
    schema_text,    \* self.schema_text of src/client.py
    raised,         \* the exception that left main, "" for none
    \* the tool server process
    server,         \* the script that runs: "server.py" or "s2.py"
    conn,           \* the shared database connection and what it did
    cursor_open,    \* cursors opened and not closed
    srv_pc,         \* position of the operation being served
    op_result       \* how the operation ended

session_vars == <<exit_stack, resources, schema_text, raised>>
server_vars == <<server, conn, cursor_open, srv_pc, op_result>>

vars == <<line, pc, memory, cached_schema, query, route, handler, schema_data,
          response_text, parse_arg, parsed, call, tool_content, interpretation,
          lc_messages, events, appended, turn_base, outcome, error, answer,
          session_vars, server_vars>>

NotParsed == Parsed("unset", PyNone, PyNone)
NoArg == [str |-> TRUE, text |-> << >>]

ChatStart ==
    /\ line = << >>
    /\ memory = << >>
    /\ cached_schema = PyNone
    /\ query = << >>
    /\ route = "none"
    /\ handler = "none"
    /\ schema_data = PyNone
    /\ response_text = << >>
    /\ parse_arg = NoArg
    /\ parsed = NotParsed
    /\ call = NoCall
    /\ tool_content = << >>
    /\ interpretation = << >>
    /\ lc_messages = NoRequest
    /\ events = << >>
    /\ appended = 0
    /\ turn_base = 0
    /\ outcome = "none"
    /\ error = ""
    /\ answer = NoAnswer

Resources == {"stdio", "session"}
Held(a, r) == [acquired |-> a, released |-> r]

\* connect_to_server has returned: both contexts are on the exit stack
Connected ==
    /\ exit_stack = <<"stdio", "session">>
    /\ resources = [r \in Resources |-> Held(1, 0)]
    /\ schema_text = << >>
    /\ raised = ""

\* how a served operation ended: kind "return" with the returned dict, or the
\* exception that left it (with its detail); cause is the message of the
\* database error behind it, raised at "execute" or at "commit"
Result(kind, body, detail, cause, at) ==
    [kind |-> kind, body |-> body, detail |-> detail, cause |-> cause, at |-> at]
NoResult == Result("none", PyNone, "", "", "")
Connection(autocommit, pending, committed, n) ==
    [autocommit |-> autocommit, pending |-> pending, committed |-> committed, n |-> n]

\* the tool server after dbapi.connect, serving nothing
ServerIdle ==
    /\ conn = Connection(TRUE, {}, {}, 0)
    /\ cursor_open = 0
    /\ srv_pc = "idle"
    /\ op_result = NoResult

\* the chat loop of src/c3.py starts on a connected session
Init ==
    /\ ChatStart
    /\ pc = "read"
    /\ Connected
    /\ server = "server.py"
    /\ ServerIdle

\* process_query returns a after the steps evs: chat_loop prints it
Returns(a, evs) ==
    /\ pc' = AfterTurn("answer")
    /\ outcome' = "answer"
    /\ answer' = a
    /\ error' = ""
    /\ events' = events \o evs \o <<"answer">>

\* an exception e leaves process_query after the steps evs: chat_loop's except
\* clause prints it
Raises(e, evs) ==
    /\ pc' = AfterTurn("error")
    /\ outcome' = "error"
    /\ answer' = NoAnswer
    /\ error' = e
    /\ events' = events \o evs \o <<"error">>

(***************************************************************************)
(* chat_loop                                                               *)
(***************************************************************************)
\* the line read is quit or exit: break
ReadQuit(typed) ==
    /\ pc = "read"
    /\ UNCHANGED <<session_vars, server_vars>>
    /\ IsQuit(Strip(typed))
    /\ pc' = "closed"
    /\ line' = typed
    /\ query' = Strip(typed)
    /\ route' = "none"
    /\ handler' = "none"
    /\ schema_data' = PyNone
    /\ response_text' = << >>
    /\ parse_arg' = NoArg
    /\ parsed' = NotParsed
    /\ call' = NoCall
    /\ tool_content' = << >>
    /\ interpretation' = << >>
    /\ lc_messages' = NoRequest
    /\ events' = << >>
    /\ outcome' = "none"
    /\ error' = ""
    /\ answer' = NoAnswer
    /\ turn_base' = appended
    /\ UNCHANGED <<memory, cached_schema, appended>>

\* any other line: process_query(query) runs up to its first external call,
\* which is get_schema's tool call (specialized route, nothing cached), the
\* handler's model call (specialized route, schema cached) or model call #1
\* (get_schema is called with force_refresh; the callers of process_query
\* pass nothing, which is force_refresh = False)
StartTurn(typed, force_refresh) ==
    /\ pc = "read"
    /\ UNCHANGED <<session_vars, server_vars>>
    /\ appended < 2 * MaxGenericTurns
    /\ ~IsQuit(Strip(typed))
    /\ line' = typed
    /\ turn_base' = appended
    /\ LET q == Strip(typed)
           r == RouteOf(q)
           hit == CacheHit(cached_schema, force_refresh)
       IN  /\ query' = q
           /\ route' = r
           /\ IF r = "generic"
              THEN /\ pc' = "llm1"
                   /\ events' = <<"start", "llm_call">>
                   /\ handler' = "none"
                   /\ schema_data' = PyNone
                   /\ lc_messages' = GenericRequest(memory, q)
              ELSE IF hit
              THEN /\ pc' = "handler_llm"
                   /\ events' = <<"start", "llm_call">>
                   /\ handler' = r
                   /\ schema_data' = cached_schema
                   /\ lc_messages' = HandlerRequest(memory, q, cached_schema)
              ELSE /\ pc' = "get_schema"
                   /\ events' = IF force_refresh
                                 THEN <<"start", "force_refresh", "schema_call">>
                                 ELSE <<"start", "schema_call">>
                   /\ handler' = "none"
                   /\ schema_data' = PyNone
                   /\ lc_messages' = NoRequest
    /\ response_text' = << >>
    /\ parse_arg' = NoArg
    /\ parsed' = NotParsed
    /\ call' = NoCall
    /\ tool_content' = << >>
    /\ interpretation' = << >>
    /\ outcome' = "none"
    /\ error' = ""
    /\ answer' = NoAnswer
    /\ UNCHANGED <<memory, cached_schema, appended>>

\* schema_data = await self.get_schema()
ReadQuery(typed) == StartTurn(typed, FALSE)

(***************************************************************************)
(* get_schema: the tool call returns or raises                             *)
(***************************************************************************)
\* Mutant of AfterSchema: a schema that is not available is fetched again.
AfterSchema_Retry(v, ev) ==
    /\ schema_data' = v
    /\ IF Truthy(v)
       THEN /\ pc' = "handler_llm"
            /\ handler' = route
            /\ events' = events \o <<ev, "llm_call">>
            /\ lc_messages' = HandlerRequest(memory, query, v)
       ELSE /\ pc' = "get_schema"
            /\ handler' = "none"
            /\ events' = events \o <<ev, "schema_call">>
            /\ lc_messages' = NoRequest

\* Mutant of AfterSchema: the handler runs whatever get_schema returned.
AfterSchema_NoCheck(v, ev) ==
    /\ schema_data' = v
    /\ pc' = "handler_llm"
    /\ handler' = route
    /\ events' = events \o <<ev, "llm_call">>
    /\ lc_messages' = HandlerRequest(memory, query, v)

\* after get_schema returned v: `if schema_data:` runs the handler up to its
\* model call, otherwise the warning is printed and the generic path starts
AfterSchema(v, ev) ==
    /\ schema_data' = v
    /\ IF Truthy(v)
       THEN /\ pc' = "handler_llm"
            /\ handler' = route
            /\ lc_messages' = HandlerRequest(memory, query, v)
       ELSE /\ pc' = "llm1"
            /\ handler' = "none"
            /\ lc_messages' = GenericRequest(memory, query)
    /\ events' = events \o <<ev, "llm_call">>

SchemaReturns(tool_result) ==
    /\ pc = "get_schema"
    /\ UNCHANGED <<session_vars, server_vars>>
    /\ cached_schema' = IF ResultText(tool_result) = << >>
                        THEN cached_schema ELSE SchemaFromResult(tool_result)
    /\ AfterSchema(SchemaFromResult(tool_result), "schema_done")
    /\ UNCHANGED <<line, turn_base, tool_content, interpretation, memory, query, route,
                   response_text, parse_arg, parsed, call, appended, outcome, error, answer>>

\* except Exception: warning printed, None returned
SchemaRaises ==
    /\ pc = "get_schema"
    /\ UNCHANGED <<session_vars, server_vars>>
    /\ AfterSchema(PyNone, "schema_raise")
    /\ UNCHANGED <<line, turn_base, tool_content, interpretation, memory, cached_schema,
                   query, route, response_text, parse_arg, parsed, call, appended, outcome,
                   error, answer>>

(***************************************************************************)
(* handle_data_insertion / handle_data_deletion / handle_data_update        *)
(***************************************************************************)
\* the handler after parse_tool_response gave r: a matching directive with
\* truthy params is sent to the tool server, anything else is a parse failure
HandlerParsed(reply, r, op) ==
    /\ parsed' = r
    /\ IF r.raised # ""
       THEN /\ Raises(r.raised, <<"llm_done", "parse">>)
            /\ call' = NoCall
       ELSE IF r.tool = PyStr(op) /\ Truthy(r.params)
       THEN /\ pc' = "handler_tool"
            /\ call' = ToolCall(r.tool, r.params)
            /\ events' = events \o <<"llm_done", "parse", "tool_call">>
            /\ UNCHANGED <<outcome, error, answer>>
       ELSE /\ Returns(Answer("parse_failure", op, "", 0, reply), <<"llm_done", "parse">>)
            /\ call' = NoCall

\* llm.invoke returned: the reply is parsed
HandlerModelReturns(reply) ==
    /\ pc = "handler_llm"
    /\ UNCHANGED <<lc_messages, session_vars, server_vars>>
    /\ response_text' = reply
    /\ parse_arg' = [str |-> TRUE, text |-> reply]
    /\ HandlerParsed(reply, parse_tool_response(reply), ExpectedTool(handler))
    /\ UNCHANGED <<line, turn_base, tool_content, interpretation, memory, cached_schema,
                   query, route, handler, schema_data, appended>>

\* llm.invoke raised: nothing in the handler catches it
HandlerModelRaises ==
    /\ pc = "handler_llm"
    /\ UNCHANGED <<lc_messages, session_vars, server_vars>>
    /\ Raises("LLMError", <<"llm_raise">>)
    /\ UNCHANGED <<line, turn_base, tool_content, interpretation, memory, cached_schema,
                   query, route, handler, schema_data, response_text, parse_arg, parsed,
                   call, appended>>

\* the handler's try: the interpreter's sentence a, or the error sentence when
\* the interpreter raised
HandlerAnswer(a, op) ==
    IF a.kind = "raised" THEN Answer("op_error", op, "", 0, << >>) ELSE a

\* call_tool returned: the result interpreter runs inside the handler's try
HandlerToolReturns(tool_result) ==
    /\ pc = "handler_tool"
    /\ UNCHANGED <<lc_messages, session_vars, server_vars>>
    /\ Returns(HandlerAnswer(process_result(ExpectedTool(handler), tool_result, call.params),
                             ExpectedTool(handler)),
               <<"tool_done">>)
    /\ tool_content' = tool_result
    /\ UNCHANGED <<line, turn_base, interpretation, memory, cached_schema, query, route,
                   handler, schema_data, response_text, parse_arg, parsed, call, appended>>

\* call_tool raised: except Exception returns the error sentence
HandlerToolRaises ==
    /\ pc = "handler_tool"
    /\ UNCHANGED <<lc_messages, session_vars, server_vars>>
    /\ Returns(Answer("op_error", ExpectedTool(handler), "", 0, << >>), <<"tool_raise">>)
    /\ UNCHANGED <<line, turn_base, tool_content, interpretation, memory, cached_schema,
                   query, route, handler, schema_data, response_text, parse_arg, parsed,
                   call, appended>>

(***************************************************************************)
(* process_query, generic path                                             *)
(***************************************************************************)
\* the generic path after parse_tool_response gave r on the cleaned reply:
\* a directive is default-filled and sent, anything else is the answer
GenericParsed(cleaned, r) ==
    /\ parse_arg' = cleaned
    /\ parsed' = r
    /\ IF r.raised # ""
       THEN /\ Raises(r.raised, <<"llm_done", "append_user", "append_assistant", "parse">>)
            /\ call' = NoCall
       ELSE IF Truthy(r.tool)
       THEN /\ pc' = "tool"
            /\ call' = ToolCall(r.tool, DefaultFill(r.params))
            /\ events' = events \o <<"llm_done", "append_user", "append_assistant",
                                     "parse", "tool_call">>
            /\ UNCHANGED <<outcome, error, answer>>
       ELSE /\ Returns(Answer("text", "", "", 0, cleaned.text),
                       <<"llm_done", "append_user", "append_assistant", "parse">>)
            /\ call' = NoCall

GenericCleaned(cleaned) == GenericParsed(cleaned, ParseCleaned(cleaned))

\* Mutant of Model1Returns: the exchange is stored only when the reply is the
\* answer, a reply that leads to a tool call is not stored before that call.
Model1Returns_DeferredStore(reply) ==
    /\ pc = "llm1"
    /\ UNCHANGED <<lc_messages, session_vars, server_vars>>
    /\ response_text' = reply
    /\ LET r == ParseCleaned(Cleanup(reply))
           stored == r.raised = "" /\ ~Truthy(r.tool)
       IN  /\ memory' = IF stored THEN StoreExchange(memory, appended) ELSE memory
           /\ appended' = IF stored THEN appended + 2 ELSE appended
    /\ GenericCleaned(Cleanup(reply))
    /\ UNCHANGED <<line, turn_base, tool_content, interpretation, cached_schema, query,
                   route, handler, schema_data>>

\* model call #1 returned: the exchange is stored and trimmed, then the reply
\* is cleaned and parsed
Model1Returns(reply) ==
    /\ pc = "llm1"
    /\ UNCHANGED <<lc_messages, session_vars, server_vars>>
    /\ response_text' = reply
    /\ memory' = StoreExchange(memory, appended)
    /\ appended' = appended + 2
    /\ GenericCleaned(Cleanup(reply))
    /\ UNCHANGED <<line, turn_base, tool_content, interpretation, cached_schema, query,
                   route, handler, schema_data>>

\* model call #1 raised: nothing was stored
Model1Raises ==
    /\ pc = "llm1"
    /\ UNCHANGED <<lc_messages, session_vars, server_vars>>
    /\ Raises("LLMError", <<"llm_raise">>)
    /\ UNCHANGED <<line, turn_base, tool_content, interpretation, memory, cached_schema,
                   query, route, handler, schema_data, response_text, parse_arg, parsed,
                   call, appended>>

\* Mutant of GenericResult: the interpretation call is started and not awaited.
GenericResult_Background(a) ==
    IF a.kind = "interpret"
    THEN /\ pc' = "read"
         /\ events' = events \o <<"tool_done", "llm_call">>
         /\ lc_messages' = InterpretationRequest(query, call.name)
         /\ UNCHANGED <<outcome, error, answer>>
    ELSE Returns(a, <<"tool_done">>) /\ UNCHANGED lc_messages

\* Mutant of GenericResult: the JSON payload is answered without the model.
GenericResult_NoSecondCall(a) ==
    IF a.kind = "interpret"
    THEN Returns(Answer("interpreted", "", "", 0, << >>), <<"tool_done">>)
         /\ UNCHANGED lc_messages
    ELSE Returns(a, <<"tool_done">>) /\ UNCHANGED lc_messages

\* process_query after _process_tool_result: its answer, or its model call
GenericResult(a) ==
    IF a.kind = "interpret"
    THEN /\ pc' = "llm2"
         /\ events' = events \o <<"tool_done", "llm_call">>
         /\ lc_messages' = InterpretationRequest(query, call.name)
         /\ UNCHANGED <<outcome, error, answer>>
    ELSE Returns(a, <<"tool_done">>) /\ UNCHANGED lc_messages

\* the directive's tool call returned: _process_tool_result
ToolReturns(tool_result) ==
    /\ pc = "tool"
    /\ UNCHANGED <<session_vars, server_vars>>
    /\ GenericResult(process_tool_result(tool_result))
    /\ tool_content' = tool_result
    /\ UNCHANGED <<line, turn_base, interpretation, memory, cached_schema, query, route,
                   handler, schema_data, response_text, parse_arg, parsed, call, appended>>

\* Mutant of ToolRaises: the failed tool call is issued again.
ToolRaises_Retry ==
    /\ pc = "tool"
    /\ UNCHANGED <<lc_messages, session_vars, server_vars>>
    /\ events' = events \o <<"tool_raise", "tool_call">>
    /\ UNCHANGED <<line, pc, memory, cached_schema, query, route, handler, schema_data,
                   response_text, parse_arg, parsed, call, tool_content, interpretation,
                   appended, turn_base, outcome, error, answer>>

ToolRaises ==
    /\ pc = "tool"
    /\ UNCHANGED <<lc_messages, session_vars, server_vars>>
    /\ Raises("ToolError", <<"tool_raise">>)
    /\ UNCHANGED <<line, turn_base, tool_content, interpretation, memory, cached_schema,
                   query, route, handler, schema_data, response_text, parse_arg, parsed,
                   call, appended>>

\* model call #2 returned: its content is the answer
Model2Returns(text) ==
    /\ pc = "llm2"
    /\ UNCHANGED <<lc_messages, session_vars, server_vars>>
    /\ Returns(Answer("interpreted", "", "", 0, text), <<"llm_done">>)
    /\ interpretation' = text
    /\ UNCHANGED <<line, turn_base, tool_content, memory, cached_schema, query, route,
                   handler, schema_data, response_text, parse_arg, parsed, call, appended>>

\* Mutant of Model2Raises: when the interpretation call raises, the tool is
\* called again and its result is interpreted again.
Model2Raises_CallAgain ==
    /\ pc = "llm2"
    /\ pc' = "tool"
    /\ events' = SubSeq(events, 1, Len(events) - 2)
    /\ UNCHANGED <<line, memory, cached_schema, query, route, handler, schema_data,
                   response_text, parse_arg, parsed, call, tool_content, interpretation,
                   lc_messages, appended, turn_base, outcome, error, answer,
                   session_vars, server_vars>>

Model2Raises ==
    /\ pc = "llm2"
    /\ UNCHANGED <<lc_messages, session_vars, server_vars>>
    /\ Raises("LLMError", <<"llm_raise">>)
    /\ UNCHANGED <<line, turn_base, tool_content, interpretation, memory, cached_schema,
                   query, route, handler, schema_data, response_text, parse_arg, parsed,
                   call, appended>>

(***************************************************************************)
(* Specification                                                           *)
(***************************************************************************)
Next ==
    \/ \E typed \in Lines : ReadQuit(typed)
    \/ \E typed \in Lines : ReadQuery(typed)
    \/ \E tool_result \in SchemaResults : SchemaReturns(tool_result)
    \/ SchemaRaises
    \/ \E reply \in Replies : HandlerModelReturns(reply)
    \/ HandlerModelRaises
    \/ \E tool_result \in ToolResults : HandlerToolReturns(tool_result)
    \/ HandlerToolRaises
    \/ \E reply \in Replies : Model1Returns(reply)
    \/ Model1Raises
    \/ \E tool_result \in ToolResults : ToolReturns(tool_result)
    \/ ToolRaises
    \/ \E text \in Interpretations : Model2Returns(text)
    \/ Model2Raises

Spec == Init /\ [][Next]_vars

(***************************************************************************)
(* Vocabulary of the properties                                            *)
(***************************************************************************)
Count(seq, e) == Cardinality({i \in 1..Len(seq) : seq[i] = e})
Occurs(seq, e) == \E i \in 1..Len(seq) : seq[i] = e

\* a line has been read (the session is past its first input())
LineRead == pc # "read" \/ outcome # "none"
\* the current turn has ended, with an answer or with a caught exception
TurnOver == outcome # "none"
\* the turn entered the generic path (at its start, or falling through)
OnGenericPath == Occurs(events, "start") /\ handler = "none" /\ pc # "get_schema"
\* a model call of this turn has returned
ModelReplied == Occurs(events, "llm_done")
Specialized == {"insertion", "deletion", "update"}
QuitWords == { <<"q","u","i","t">>, <<"e","x","i","t">> }
Min(a, b) == IF a < b THEN a ELSE b

(***************************************************************************)
(* Properties                                                              *)
(***************************************************************************)
\* C1: after any sequence of turns memory holds at most 20 messages, and they
\* are exactly the last min(20, appended) messages appended, in append order
\* (the i-th retained message is the (appended - len + i)-th one appended, a
\* user message at odd positions of the append order, an assistant at even).
C1_MemoryIsLatestWindow ==
    /\ Len(memory) <= 20
    /\ Len(memory) = Min(20, appended)
    /\ \A i \in 1..Len(memory) :
          /\ memory[i].n = appended - Len(memory) + i
          /\ memory[i].role = IF memory[i].n % 2 = 1 THEN "user" ELSE "assistant"

\* C1 witness: more than 20 messages were appended and the oldest were dropped
C1_Witness ==
    /\ appended > 20
    /\ Len(memory) = 20
    /\ memory[1].n = appended - 19

\* C2, as claimed: every finished generic-path turn appended exactly one user
\* message followed by one assistant message
C2_Original ==
    (OnGenericPath /\ TurnOver) =>
        /\ appended = turn_base + 2
        /\ memory[Len(memory) - 1] = Message("user", appended - 1)
        /\ memory[Len(memory)] = Message("assistant", appended)

\* C2, amended: a generic-path turn whose model call #1 returned has appended
\* exactly one user message followed by one assistant message, whatever the
\* reply held and however the turn went on; while model call #1 has not
\* returned, or when it raised, the turn has appended nothing.
C2_GenericTurnStoresExchange ==
    /\ (OnGenericPath /\ ModelReplied) =>
          /\ appended = turn_base + 2
          /\ Len(memory) >= 2
          /\ memory[Len(memory) - 1] = Message("user", appended - 1)
          /\ memory[Len(memory)] = Message("assistant", appended)
    /\ (OnGenericPath /\ ~ModelReplied) => appended = turn_base

\* C2 witness: generic turns that stored the exchange and then ended without a
\* tool call, after a tool call, and by an exception of the tool call
C2_Witness ==
    /\ OnGenericPath /\ TurnOver
    /\ appended = turn_base + 2
    /\ error = "ToolError"

\* C3, as claimed: at most one tool invocation and at most two model
\* invocations in a turn
C3_Original ==
    /\ Count(events, "schema_call") + Count(events, "tool_call") <= 1
    /\ Count(events, "llm_call") <= 2

\* C3, amended: a turn issues at most two tool invocations, namely at most one
\* schema fetch by get_schema (only on a specialized route, as the turn's
\* first external call) and at most one invocation of the directive's tool,
\* and at most two model invocations (one when a specialized handler ran).
C3_CallsPerTurn ==
    /\ Count(events, "schema_call") <= 1
    /\ Count(events, "tool_call") <= 1
    /\ Count(events, "llm_call") <= 2
    /\ handler # "none" => Count(events, "llm_call") <= 1
    /\ Occurs(events, "schema_call") => route \in Specialized /\ events[2] = "schema_call"

\* C3 witness: a finished turn with two tool invocations
C3_Witness ==
    /\ TurnOver
    /\ Occurs(events, "schema_call")
    /\ Occurs(events, "tool_call")

\* C4: whenever a turn raised, chat_loop caught the exception and is back at
\* input(): the loop has not ended
C4_ErrorKeepsLoop ==
    outcome = "error" => pc = "read" /\ error # ""

\* C4 witness: a turn that raised after it had stored its exchange
C4_Witness ==
    /\ outcome = "error"
    /\ pc = "read"
    /\ error = "JSONDecodeError"
    /\ appended = turn_base + 2

\* C5: the loop has ended exactly when the line read, stripped and lower-cased,
\* is quit or exit; any other line read started exactly one process_query
\* call, on the stripped line
C5_QuitEndsLoop ==
    /\ pc = "closed" <=> (LineRead /\ Lower(Strip(line)) \in QuitWords)
    /\ (LineRead /\ pc # "closed") =>
          /\ Count(events, "start") = 1
          /\ query = Strip(line)

\* C5 witness: the loop ended on a line that needed stripping and lower-casing
C5_Witness ==
    /\ pc = "closed"
    /\ line = <<" ","E","X","I","T"," ">>

\* the directive parser was applied, to a text, in this turn
ParserApplied == parsed.raised # "unset" /\ parse_arg.str

\* the identifiers x written as `TOOL: x` in a text
ToolLines(text) ==
    { text[SkipWs(text, i + 2)].s :
        i \in { h \in 1..(Len(text) - 2) :
                  /\ text[h] = W("TOOL")
                  /\ text[h + 1] = P(":")
                  /\ SkipWs(text, h + 2) <= Len(text)
                  /\ IsWord(text[SkipWs(text, h + 2)]) } }

\* the positions that follow a `PARAMS:` marker of a text
ParamsMarkers(text) ==
    { i + 2 : i \in { h \in 1..(Len(text) - 1) :
                        text[h] = W("PARAMS") /\ text[h + 1] = P(":") } }

\* the JSON objects written right after a `PARAMS:` marker
ObjectAt(r) == IF r.ok /\ IsDict(r.v) THEN {r.v} ELSE {}
ParamsObjects(text) == UNION { ObjectAt(ParseValue(text, i)) : i \in ParamsMarkers(text) }

\* a `PARAMS:` marker is followed by text that is not JSON
MalformedParams(text) == \E i \in ParamsMarkers(text) : ~ParseValue(text, i).ok

\* the text, code fence removed, is a JSON object with the keys TOOL and PARAMS
DirectiveObject(loaded) ==
    /\ loaded.ok
    /\ IsDict(loaded.v)
    /\ HasKey(loaded.v, "TOOL")
    /\ HasKey(loaded.v, "PARAMS")
IsDirectiveObject(text) == DirectiveObject(json_loads(CleanedText(text)))

\* C6, as claimed: a reply that holds a line TOOL: x and a part
\* PARAMS: <JSON object> makes parse_tool_response return (x, that object),
\* whatever other text surrounds them
C6_Original ==
    (/\ ParserApplied
     /\ ToolLines(parse_arg.text) # {}
     /\ ParamsObjects(parse_arg.text) # {})
    => /\ parsed.raised = ""
       /\ parsed.tool.t = "str"
       /\ parsed.tool.s \in ToolLines(parse_arg.text)
       /\ parsed.params \in ParamsObjects(parse_arg.text)

\* C7, as claimed: a text with no TOOL:/PARAMS: pair that is no JSON object
\* with the keys TOOL and PARAMS makes parse_tool_response return (None, None)
C7_Original ==
    (/\ ParserApplied
     /\ ~(ToolLines(parse_arg.text) # {} /\ ParamsMarkers(parse_arg.text) # {})
     /\ ~IsDirectiveObject(parse_arg.text))
    => parsed = NoDirective

\* C8, as claimed: text after a PARAMS: marker that is not valid JSON makes
\* parse_tool_response raise nothing
C8_Original ==
    (ParserApplied /\ MalformedParams(parse_arg.text)) => parsed.raised = ""

\* the keywords of a set that occur in the lower-cased text
Found(text, keywords) == {k \in keywords : Contains(text, k)}

\* C9 for the lower-cased text of a turn and the route the turn took
RoutedByPriority(text, r) ==
    /\ r \in {"insertion", "deletion", "update", "generic"}
    /\ r = "insertion" <=> Found(text, insertion_keywords) # {}
    /\ r = "deletion" <=> /\ Found(text, insertion_keywords) = {}
                          /\ Found(text, deletion_keywords) # {}
    /\ r = "update" <=> /\ Found(text, insertion_keywords) = {}
                        /\ Found(text, deletion_keywords) = {}
                        /\ Found(text, update_keywords) # {}
    /\ r = "generic" <=> /\ Found(text, insertion_keywords) = {}
                         /\ Found(text, deletion_keywords) = {}
                         /\ Found(text, update_keywords) = {}

\* C9: the route of a turn is fixed by the lower-cased text with the priority
\* insertion > deletion > update > generic: insertion when any insertion
\* keyword occurs, deletion only when no insertion keyword occurs, update
\* only when neither an insertion nor a deletion keyword occurs, generic only
\* when no keyword occurs
C9_RoutePriority ==
    (LineRead /\ pc # "closed") => RoutedByPriority(Lower(Strip(line)), route)

\* C9 witness: a text with a deletion and an update keyword went to deletion,
\* and its handler ran
C9_Witness ==
    /\ line = <<"d","r","o","p"," ","s","e","t">>
    /\ route = "deletion"
    /\ handler = "deletion"

\* get_schema returned None in this turn, on a specialized route
SchemaUnavailable ==
    /\ route \in Specialized
    /\ Occurs(events, "schema_done") \/ Occurs(events, "schema_raise")
    /\ schema_data = PyNone

\* C10: when a specialized route matched and get_schema returned None, no
\* specialized handler runs; the turn goes on with model call #1 of the
\* generic path, stores the exchange in memory once the model replied, and
\* ends like a generic turn (a generic answer, or an exception of a generic
\* step), never with a handler's answer
C10_FallThrough ==
    SchemaUnavailable =>
        /\ handler = "none"
        /\ pc \in {"llm1", "tool", "llm2", "read"}
        /\ Len(events) >= 4
        /\ events[4] = "llm_call"
        /\ ModelReplied => appended = turn_base + 2
        /\ outcome = "answer" => answer.kind \in {"text", "no_data", "raw", "interpreted"}

\* C10 witness: such a turn called a tool on the generic path and answered
C10_Witness ==
    /\ SchemaUnavailable
    /\ Occurs(events, "tool_call")
    /\ outcome = "answer"
    /\ answer.kind = "interpreted"

\* a specialized handler ran in this turn
InHandler == handler \in Specialized
\* the directive's tool was invoked in this turn
ToolInvoked == Occurs(events, "tool_call")
\* the tools that write a table
WritingTools == {PyStr("insert_data"), PyStr("update_data"), PyStr("delete_data")}

\* C11, as claimed: in a specialized handler, once the parser returned, the
\* tool is invoked if and only if the parsed tool name is the handler's
\* operation and the parsed params are not None (the empty object included);
\* otherwise the handler returns the parse-failure message with the raw reply
C11_Original ==
    (InHandler /\ parsed.raised = "") =>
        /\ ToolInvoked <=> /\ parsed.tool = PyStr(ExpectedTool(handler))
                           /\ parsed.params # PyNone
        /\ ~ToolInvoked => /\ outcome = "answer"
                           /\ answer.kind = "parse_failure"
                           /\ answer.text = response_text

\* C12, as claimed: a turn that ran a specialized handler ends with a string
\* the handler returned, never with an exception, and a failed tool
\* invocation gives the error sentence of the handler's operation
C12_Original ==
    (InHandler /\ TurnOver) =>
        /\ outcome = "answer"
        /\ Occurs(events, "tool_raise") =>
              answer.kind = "op_error" /\ answer.op = ExpectedTool(handler)

\* C13, as claimed: every insert_data, update_data or delete_data invocation
\* sent to the tool server carries a table parameter
C13_Original ==
    (ToolInvoked /\ call.name \in WritingTools) =>
        IsDict(call.params) /\ HasKey(call.params, "table")

\* the keys of an object
Keys(d) == {d.kids[i].k : i \in 1..Len(d.kids)}

\* after is before with the defaults filled in: table and schema are there,
\* every key of before keeps its value, no other key came or went
DefaultsFilled(before, after) ==
    /\ IsDict(after)
    /\ Keys(after) = Keys(before) \cup {"table", "schema"}
    /\ \A key \in Keys(before) : Get(after, key) = Get(before, key)
    /\ "table" \notin Keys(before) => Get(after, "table") = PyStr("Customer")
    /\ "schema" \notin Keys(before) => Get(after, "schema") = PyStr("SAC_1")

\* C14: on the generic path the params sent to the tool are the directive's
\* params (an object) with table = Customer and schema = SAC_1 added when
\* those keys were absent; every key already present keeps its value and no
\* other key is added or removed
C14_DefaultFill ==
    (OnGenericPath /\ ToolInvoked /\ IsDict(parsed.params)) =>
        DefaultsFilled(parsed.params, call.params)

\* C14 witness: a directive naming the table Orders and a limit, no schema
C14_Witness ==
    /\ OnGenericPath /\ ToolInvoked
    /\ Keys(parsed.params) = {"table", "limit"}
    /\ Get(call.params, "table") = PyStr("Orders")
    /\ Get(call.params, "schema") = PyStr("SAC_1")

\* the directive's tool call of this turn has returned
ToolReturned == Occurs(events, "tool_done")
\* the first text payload of the returned tool result
Payload == ResultText(tool_content)

\* the success markers of a payload for an operation: a message containing
\* "successfully" in any case, or the operation's result tag as object
MessageMarked(v) ==
    /\ HasKey(v, "message")
    /\ Get(v, "message").t = "str"
    /\ StrContains(Get(v, "message").s, "successfully")
TagMarked(v, op) == HasKey(v, "object") /\ Get(v, "object") = PyStr(ResultTag(op))
Marked(loaded, op) ==
    /\ loaded.ok
    /\ IsDict(loaded.v)
    /\ MessageMarked(loaded.v) \/ TagMarked(loaded.v, op)

\* the table a handler's sentence names: the call's table parameter, the word
\* table when the call carried none
TableNamed(params) == IF HasKey(params, "table") THEN Get(params, "table").s ELSE "table"

\* the handler's answer is the success sentence / the failure sentence with
\* the raw payload
ReportsSuccess == answer.kind = "op_ok" /\ answer.table = TableNamed(call.params)
ReportsFailure(text) ==
    /\ answer.kind = "op_failed"
    /\ answer.table = TableNamed(call.params)
    /\ answer.text = text

\* the classification of C15 for a payload text and what json.loads gave
ClassifiedByMarkers(text, loaded, op) ==
    /\ ReportsSuccess <=> Marked(loaded, op)
    /\ ~Marked(loaded, op) => ReportsFailure(text)

\* a payload that is a JSON object whose message, if any, is a string
ObjectPayload(loaded) ==
    /\ loaded.ok
    /\ IsDict(loaded.v)
    /\ HasKey(loaded.v, "message") => Get(loaded.v, "message").t = "str"

\* params whose data, if any, has a length
SizedData(params) ==
    /\ IsDict(params)
    /\ HasKey(params, "data") => Get(params, "data").t \in {"dict", "list", "str"}

C16_Original ==
    (ToolReturned /\ Payload = << >>) =>
        outcome = "answer" /\ answer.kind = "no_data"

\* a non-empty payload and what json.loads makes of it
RawPayload(text) == text # << >> /\ ~json_loads(text).ok
JsonPayload(text) == text # << >> /\ json_loads(text).ok

\* C17: on the generic path a non-empty payload that is not JSON ends the
\* turn with the answer "Retrieved data: " and the unmodified payload, and
\* model call #1 stays the turn's only model call
C17_RawPayloadReturned ==
    (OnGenericPath /\ ToolReturned /\ RawPayload(Payload)) =>
        /\ pc = "read"
        /\ outcome = "answer"
        /\ answer.kind = "raw"
        /\ answer.text = Payload
        /\ Count(events, "llm_call") = 1

\* C17 witness: the text that follows an image item is returned raw
C17_Witness ==
    /\ OnGenericPath
    /\ tool_content = TR_ErrorText
    /\ answer.kind = "raw"
    /\ answer.text = <<W("Error"), SP, W("executing"), SP, W("tool")>>

\* position of the n-th occurrence of e in seq, 0 when there are fewer
Nth(seq, e, n) ==
    LET at == {i \in 1..Len(seq) : seq[i] = e /\ Count(SubSeq(seq, 1, i), e) = n}
    IN  IF at = {} THEN 0 ELSE CHOOSE i \in at : TRUE

\* C18: on the generic path, when the tool call (get_data, get_schema or any
\* other tool) returned a payload that parses as JSON, exactly one further
\* model call is made, right after the tool call returned, and when it
\* returns its content is the turn's answer verbatim; a second model call is
\* made in no other case and never before the tool call has returned
C18_SecondCallAfterTool ==
    /\ (OnGenericPath /\ ToolReturned /\ JsonPayload(Payload)) =>
          /\ Count(events, "llm_call") = 2
          /\ Nth(events, "llm_call", 2) = Nth(events, "tool_done", 1) + 1
          /\ Nth(events, "tool_call", 1) + 1 = Nth(events, "tool_done", 1)
          /\ pc \in {"llm2", "read"}
          /\ outcome = "answer" =>
                /\ answer.kind = "interpreted"
                /\ answer.text = interpretation
                /\ interpretation \in Interpretations
    /\ (OnGenericPath /\ Count(events, "llm_call") >= 2) =>
          ToolReturned /\ JsonPayload(Payload)

\* C18 witness: get_data returned a list and the model's sentence is the answer
C18_Witness ==
    /\ OnGenericPath
    /\ call.name = PyStr("get_data")
    /\ tool_content = TR_List
    /\ outcome = "answer"
    /\ answer.text = R_Plain
    /\ interpretation = R_Plain

\* C19, as claimed: a turn that starts with a schema in the cache (any value
\* get_schema has stored, the empty object included) gets that object from
\* get_schema and issues no get_schema tool call
C19_Original ==
    [][(/\ pc = "read"
        /\ cached_schema # PyNone
        /\ route' \in Specialized)
       => /\ pc' # "get_schema"
          /\ schema_data' = cached_schema]_vars

\* C20, as claimed: once the cache holds a value no step of any turn
\* replaces or clears it (no caller sets force_refresh)
C20_Original ==
    [][cached_schema # PyNone => cached_schema' = cached_schema]_vars

\* C21, as claimed: on the generic path the exchange is appended to memory
\* only after the answer was produced; memory is not modified while the
\* tool call and the result interpretation of the turn are still to come
C21_Original ==
    OnGenericPath =>
        /\ appended # turn_base => outcome = "answer"
        /\ Occurs(events, "append_user") =>
              /\ Occurs(events, "answer")
              /\ Nth(events, "answer", 1) < Nth(events, "append_user", 1)

\* C21, amended: within a generic-path turn the order is model call #1, the
\* append of the exchange (the query and the reply of model call #1), the
\* directive parse, the optional tool call, the optional model call #2, the
\* answer; memory is modified right after model call #1 returned and not
\* again while the tool call and the interpretation run
C21_AppendBeforeParse ==
    OnGenericPath =>
        LET u == Nth(events, "append_user", 1)
            later(e) == \A i \in 1..Len(events) : events[i] = e => (u > 0 /\ i > u + 1)
            ordered(e, f) ==
                (Occurs(events, e) /\ Occurs(events, f)) =>
                    Nth(events, e, 1) < Nth(events, f, 1)
        IN  /\ Count(events, "append_user") <= 1
            /\ ModelReplied <=> u > 0
            /\ appended = (IF u > 0 THEN turn_base + 2 ELSE turn_base)
            /\ u > 0 =>
                  /\ events[u - 1] = "llm_done"
                  /\ Nth(events, "llm_done", 1) = u - 1
                  /\ events[u + 1] = "append_assistant"
                  /\ Count(events, "append_assistant") = 1
            /\ later("parse") /\ later("tool_call") /\ later("tool_done")
            /\ later("tool_raise") /\ later("answer")
            /\ Count(events, "llm_call") = 2 => Nth(events, "llm_call", 2) > u + 1
            /\ ordered("parse", "tool_call")
            /\ ordered("tool_call", "tool_done")
            /\ ordered("tool_done", "answer")
            /\ ordered("parse", "answer")

\* C21 witness: the exchange is in memory while model call #2 of the same
\* turn is still outstanding
C21_Witness ==
    /\ OnGenericPath
    /\ pc = "llm2"
    /\ appended = turn_base + 2
    /\ memory[Len(memory)] = Message("assistant", appended)
    /\ ~Occurs(events, "answer")

\* the events that end an external call by an exception
Failures == {"schema_raise", "llm_raise", "tool_raise"}
\* the events that issue an external call
Requests == {"schema_call", "llm_call", "tool_call"}

\* C23: no failed external call is retried: within a turn the schema fetch
\* and the directive's tool call are issued at most once, a second model call
\* is the interpretation request that follows the tool's return, a failed
\* model or tool call is followed by nothing but the end of the turn, and a
\* failed schema fetch by no further schema fetch
C23_NoRetry ==
    /\ Count(events, "schema_call") <= 1
    /\ Count(events, "tool_call") <= 1
    /\ Count(events, "llm_call") <= 2
    /\ Count(events, "llm_call") = 2 =>
          events[Nth(events, "llm_call", 2) - 1] = "tool_done"
    /\ \A i \in 1..Len(events) :
          /\ events[i] \in {"llm_raise", "tool_raise"} =>
                /\ Len(events) = i + 1
                /\ events[i + 1] \in {"error", "answer"}
          /\ events[i] = "schema_raise" =>
                \A j \in (i + 1)..Len(events) : events[j] # "schema_call"

\* C23 witness: the schema fetch failed, then model call #1 failed, and the
\* turn ended with four events after its start
C23_Witness ==
    /\ events = <<"start", "schema_call", "schema_raise", "llm_call", "llm_raise", "error">>
    /\ pc = "read"

\* external calls issued and not yet returned or failed
Outstanding ==
    Cardinality({i \in 1..Len(events) : events[i] \in Requests})
    - Cardinality({i \in 1..Len(events) :
                      events[i] \in Failures \cup {"schema_done", "llm_done", "tool_done"}})

\* C25: at most one model or tool request is outstanding, exactly while the
\* control thread waits for it; a turn is started once, and input() is
\* reached only with no request outstanding and the turn's answer returned
\* or its error reported
C25_NoOverlap ==
    /\ Outstanding \in {0, 1}
    /\ Outstanding = 1 <=>
          pc \in {"get_schema", "handler_llm", "handler_tool", "llm1", "tool", "llm2"}
    /\ Count(events, "start") <= 1
    /\ (pc = "read" /\ events # << >>) => TurnOver /\ Outstanding = 0

\* C25 witness: the second model call is the one request outstanding
C25_Witness ==
    /\ pc = "llm2"
    /\ Outstanding = 1
    /\ Count(events, "llm_done") = 1
    /\ Count(events, "tool_done") = 1

\* C30: memory has even length and alternates user, assistant from a user
\* message on; each assistant message directly follows the user message
\* appended with it, also after trimming
C30_Alternates ==
    /\ Len(memory) % 2 = 0
    /\ \A i \in 1..Len(memory) :
          IF i % 2 = 1
          THEN memory[i].role = "user"
          ELSE /\ memory[i].role = "assistant"
               /\ memory[i].n = memory[i - 1].n + 1
               /\ memory[i].n % 2 = 0

\* C30 witness: a trimmed memory that begins with the user message of the
\* oldest retained exchange
C30_Witness ==
    /\ appended = 22
    /\ Len(memory) = 20
    /\ memory[1] = Message("user", 3)
    /\ memory[2] = Message("assistant", 4)

\* C22: in a turn that a specialized handler runs, the one model request
\* is a single message built from the user text and the schema the handler
\* was given, with no message of memory in it, and memory is what it was
\* when the turn began: nothing appended, the same window of messages
C22_HandlerIgnoresMemory ==
    handler \in Specialized =>
        /\ lc_messages = Request(FALSE, << >>, query, schema_data, PyNone)
        /\ Count(events, "llm_call") = 1
        /\ appended = turn_base
        /\ Len(memory) = Min(turn_base, 2 * MAX_MEMORY)
        /\ \A i \in 1..Len(memory) : memory[i].n = turn_base - Len(memory) + i

\* C22 witness: a handler turn ended with its answer while memory held
\* earlier exchanges
C22_Witness ==
    /\ handler \in Specialized
    /\ outcome = "answer"
    /\ Occurs(events, "tool_done")
    /\ Len(memory) >= 2
    /\ lc_messages.context = << >>

(***************************************************************************)
(* src/client.py: main, connect_to_server, and a chat loop whose            *)
(* process_query has the generic path only, with the bare-call fallback     *)
(***************************************************************************)
MaxClientTurns == 2

\* sys.argv[1:2]: no argument, a .py script, a .js script, another file
Argvs ==
    { << >>,
      <<"s", ".", "p", "y">>,
      <<"s", ".", "j", "s">>,
      <<"s", ".", "s", "h">> }

\* str.endswith
EndsWith(str, suffix) ==
    /\ Len(str) >= Len(suffix)
    /\ SubSeq(str, Len(str) - Len(suffix) + 1, Len(str)) = suffix

\* is_python or is_js
IsScript(path) == EndsWith(path, <<".", "p", "y">>) \/ EndsWith(path, <<".", "j", "s">>)

\* Mutant of Teardown: cleanup follows chat_loop without try/finally.
Teardown_OnSuccessOnly(exc) ==
    /\ pc' = "exited"
    /\ raised' = exc
    /\ IF exc = ""
       THEN /\ exit_stack' = << >>
            /\ resources' = [r \in Resources |->
                               IF \E i \in 1..Len(exit_stack) : exit_stack[i] = r
                               THEN Held(resources[r].acquired, resources[r].released + 1)
                               ELSE resources[r]]
       ELSE UNCHANGED <<exit_stack, resources>>

\* `finally: await client.cleanup()`: exit_stack.aclose() leaves every
\* context that was entered, once, and empties the stack; exc is the
\* exception that goes on to leave main, "" for none
Teardown(exc) ==
    /\ pc' = "exited"
    /\ raised' = exc
    /\ exit_stack' = << >>
    /\ resources' = [r \in Resources |->
                       IF \E i \in 1..Len(exit_stack) : exit_stack[i] = r
                       THEN Held(resources[r].acquired, resources[r].released + 1)
                       ELSE resources[r]]

\* the variables of a turn, which everything outside process_query leaves alone
turn_vars == <<line, memory, cached_schema, query, route, handler, schema_data,
               response_text, parse_arg, parsed, call, tool_content, interpretation,
               lc_messages, events, appended, turn_base, outcome, error, answer>>

\* main up to the first await of connect_to_server: sys.exit(1) without an
\* argument (before the client and the try exist), ValueError for a script
\* that is neither .py nor .js (inside the try)
Main(argv) ==
    /\ pc = "main"
    /\ IF argv = << >>
       THEN /\ pc' = "exited"
            /\ raised' = "SystemExit"
            /\ UNCHANGED <<exit_stack, resources>>
       ELSE IF ~IsScript(argv)
       THEN Teardown("ValueError")
       ELSE /\ pc' = "enter_stdio"
            /\ UNCHANGED <<exit_stack, resources, raised>>
    /\ UNCHANGED <<turn_vars, schema_text, server_vars>>

\* the context that the awaited enter_async_context acquires
Entering == [enter_stdio |-> "stdio", enter_session |-> "session"]
\* the await that follows each await of connect_to_server
AfterAwait ==
    [enter_stdio |-> "enter_session", enter_session |-> "initialize",
     initialize |-> "list_tools", list_tools |-> "fetch_schema"]

\* exit_stack.enter_async_context(...) returned: the context is on the stack
EnterReturns ==
    /\ pc \in {"enter_stdio", "enter_session"}
    /\ exit_stack' = Append(exit_stack, Entering[pc])
    /\ resources' = [resources EXCEPT ![Entering[pc]] =
                        Held(resources[Entering[pc]].acquired + 1,
                             resources[Entering[pc]].released)]
    /\ pc' = AfterAwait[pc]
    /\ UNCHANGED <<turn_vars, schema_text, raised, server_vars>>

\* session.initialize() or session.list_tools() returned
HandshakeReturns ==
    /\ pc \in {"initialize", "list_tools"}
    /\ pc' = AfterAwait[pc]
    /\ UNCHANGED <<turn_vars, session_vars, server_vars>>

\* an await of connect_to_server before the schema fetch raised: nothing was
\* entered by it, the exception leaves connect_to_server and main
ConnectRaises ==
    /\ pc \in {"enter_stdio", "enter_session", "initialize", "list_tools"}
    /\ Teardown("ConnectError")
    /\ UNCHANGED <<turn_vars, schema_text, server_vars>>

\* call_tool("get_schema", {}) returned: the text of the first item that has
\* one is kept as schema_text
FetchSchemaReturns(schema_result) ==
    /\ pc = "fetch_schema"
    /\ schema_text' = IF \E i \in 1..Len(schema_result) : schema_result[i].hasText
                      THEN ResultText(schema_result) ELSE schema_text
    /\ pc' = "read"
    /\ UNCHANGED <<turn_vars, exit_stack, resources, raised, server_vars>>

\* except Exception: the warning is printed, the session goes on
FetchSchemaRaises ==
    /\ pc = "fetch_schema"
    /\ pc' = "read"
    /\ UNCHANGED <<turn_vars, session_vars, server_vars>>

\* a BaseException that `except Exception` does not catch (KeyboardInterrupt,
\* cancellation) leaves the schema fetch or the chat loop
Interrupt ==
    /\ pc \in {"fetch_schema", "read", "llm1", "tool", "llm2"}
    /\ Teardown("KeyboardInterrupt")
    /\ UNCHANGED <<turn_vars, schema_text, server_vars>>

\* quit or exit: break, chat_loop returns, main's finally runs
ClientReadQuit(typed) ==
    /\ pc = "read"
    /\ IsQuit(Strip(typed))
    /\ Teardown("")
    /\ line' = typed
    /\ UNCHANGED <<memory, cached_schema, query, route, handler, schema_data,
                   response_text, parse_arg, parsed, call, tool_content, interpretation,
                   lc_messages, events, appended, turn_base, outcome, error, answer,
                   schema_text, server_vars>>

\* any other line: process_query up to model call #1 (the lines of this
\* model hold no "key: value" pair, so extract_fields leaves the query as typed)
ClientReadQuery(typed) ==
    /\ pc = "read"
    /\ appended < 2 * MaxClientTurns
    /\ ~IsQuit(Strip(typed))
    /\ line' = typed
    /\ turn_base' = appended
    /\ query' = Strip(typed)
    /\ route' = "generic"
    /\ pc' = "llm1"
    /\ events' = <<"start", "llm_call">>
    /\ handler' = "none"
    /\ schema_data' = PyNone
    /\ lc_messages' = GenericRequest(memory, Strip(typed))
    /\ response_text' = << >>
    /\ parse_arg' = NoArg
    /\ parsed' = NotParsed
    /\ call' = NoCall
    /\ tool_content' = << >>
    /\ interpretation' = << >>
    /\ outcome' = "none"
    /\ error' = ""
    /\ answer' = NoAnswer
    /\ UNCHANGED <<memory, cached_schema, appended, session_vars, server_vars>>

\* parse_tool_response of src/client.py: the TOOL:/PARAMS: grammar only
client_parse_tool_response(reply_text) ==
    LET tool_match == ToolMatch(reply_text)
        params_match == ParamsMatch(reply_text)
    IN  IF tool_match # 0 /\ params_match[1] # 0
        THEN PrimaryResult(reply_text[tool_match].s,
                           json_loads(SubSeq(reply_text, params_match[1], params_match[2])))
        ELSE NoDirective

\* the spellings re.IGNORECASE lets the name take, in the replies of this model
BareNames == {"get_schema", "GET_SCHEMA", "Get_Schema"}

\* re.match(r"get_schema\s*\(\s*\)?", stripped, re.IGNORECASE): the name at
\* the start, optional blanks, an opening parenthesis; what follows it is free
BareCallMatch(stripped) ==
    /\ Len(stripped) >= 2
    /\ stripped[1].k = "w"
    /\ stripped[1].s \in BareNames
    /\ SkipWs(stripped, 2) <= Len(stripped)
    /\ stripped[SkipWs(stripped, 2)] = P("(")

BareCallParams == PyDict(<<KV("table", PyStr("Customer")), KV("schema", PyStr("SAC_1"))>>)

\* `if not tool_name:` and the fallback that follows the parser
BareCallFallback(reply_text, r) ==
    IF r.raised = "" /\ ~Truthy(r.tool) /\ BareCallMatch(StripToks(reply_text))
    THEN Parsed("", PyStr("get_schema"), BareCallParams)
    ELSE r

\* the parser and the fallback applied to the cleaned reply
ClientParseCleaned(cleaned) ==
    IF cleaned.str
    THEN BareCallFallback(cleaned.text, client_parse_tool_response(cleaned.text))
    ELSE Parsed("TypeError", PyNone, PyNone)

\* get_schema()
R_BareCall == <<W("get_schema"), P("("), P(")")>>
\* GET_SCHEMA ( )  with a blank line before
R_BareCallSpaced == <<NL, W("GET_SCHEMA"), SP, P("("), SP, P(")"), NL>>
\* get_schema(
R_BareCallOpen == <<W("get_schema"), P("(")>>
\* get_schema(table="Orders")
R_BareCallArgs == <<W("get_schema"), P("("), W("table"), P("="), S("Orders"), P(")")>>
\* get_schema() lists the columns
R_BareCallThenText == <<W("get_schema"), P("("), P(")"), SP, W("lists"), SP, W("the"),
                        SP, W("columns")>>
\* call get_schema()
R_TextThenBareCall == <<W("call"), SP, W("get_schema"), P("("), P(")")>>
\* get_schema
R_BareName == <<W("get_schema")>>

ClientReplies ==
    { R_Plain, R_GetData, R_Insert, R_BadJson, R_ToolOnly, R_Json, R_AnswerJson,
      R_MessageNumber, R_BareCall, R_BareCallSpaced, R_BareCallOpen, R_BareCallArgs,
      R_BareCallThenText, R_TextThenBareCall, R_BareName }

\* model call #1 returned: the exchange is stored and trimmed, the reply is
\* cleaned, parsed, and the directive's tool is called
ClientModel1Returns(reply) ==
    /\ pc = "llm1"
    /\ response_text' = reply
    /\ memory' = StoreExchange(memory, appended)
    /\ appended' = appended + 2
    /\ GenericParsed(Cleanup(reply), ClientParseCleaned(Cleanup(reply)))
    /\ UNCHANGED <<line, turn_base, tool_content, interpretation, lc_messages,
                   cached_schema, query, route, handler, schema_data, session_vars,
                   server_vars>>

ClientInit ==
    /\ ChatStart
    /\ pc = "main"
    /\ exit_stack = << >>
    /\ resources = [r \in Resources |-> Held(0, 0)]
    /\ schema_text = << >>
    /\ raised = ""
    /\ server = "server.py"
    /\ ServerIdle

ClientNext ==
    \/ \E argv \in Argvs : Main(argv)
    \/ EnterReturns
    \/ HandshakeReturns
    \/ ConnectRaises
    \/ \E schema_result \in SchemaResults : FetchSchemaReturns(schema_result)
    \/ FetchSchemaRaises
    \/ Interrupt
    \/ \E typed \in Lines : ClientReadQuit(typed)
    \/ \E typed \in Lines : ClientReadQuery(typed)
    \/ \E reply \in ClientReplies : ClientModel1Returns(reply)
    \/ Model1Raises
    \/ \E tool_result \in ToolResults : ToolReturns(tool_result)
    \/ ToolRaises
    \/ \E text \in Interpretations : Model2Returns(text)
    \/ Model2Raises

SpecClient == ClientInit /\ [][ClientNext]_vars

\* C24: every resource entered on the exit stack is released exactly once,
\* at teardown and not before, however main ends: after the chat loop
\* returned, after connect_to_server failed (with nothing, or only the
\* transport, or both entered), after an exception left the chat loop
C24_ReleasedOnce ==
    \A r \in Resources :
        /\ resources[r].acquired \in {0, 1}
        /\ pc = "exited" =>
              /\ resources[r].released = resources[r].acquired
              /\ exit_stack = << >>
        /\ pc # "exited" =>
              /\ resources[r].released = 0
              /\ resources[r].acquired = 1 <=>
                    \E i \in 1..Len(exit_stack) : exit_stack[i] = r

\* C24 witness: connect_to_server failed after only the transport was
\* opened, and main ended with the transport released once
C24_Witness ==
    /\ pc = "exited"
    /\ raised = "ConnectError"
    /\ resources["stdio"] = Held(1, 1)
    /\ resources["session"] = Held(0, 0)

\* the reply is just the tool name followed by empty parentheses
ExactBareCall(stripped) ==
    \E n \in 3..Len(stripped) :
        /\ n = Len(stripped)
        /\ stripped[1].k = "w" /\ stripped[1].s \in BareNames
        /\ stripped[n] = P(")")
        /\ \E o \in 2..(n - 1) :
              /\ stripped[o] = P("(")
              /\ \A i \in (2..(n - 1)) \ {o} : IsWs(stripped[i])

\* the turn's tool call came from the bare-call fallback: the parser found
\* no directive in the cleaned reply and a call was issued all the same
BareCallIssued ==
    /\ parsed.raised = ""
    /\ parse_arg.str
    /\ ~Truthy(client_parse_tool_response(parse_arg.text).tool)
    /\ call # NoCall

\* C29, as claimed: the fallback yields the get_schema call with the two
\* default parameters only for a reply that no grammar matched and that is
\* just the name and empty parentheses; a reply that only begins with
\* get_schema( or goes on after the parentheses leads to no tool call
C29_Original ==
    /\ BareCallIssued =>
          /\ call = ToolCall(PyStr("get_schema"), BareCallParams)
          /\ ExactBareCall(StripToks(parse_arg.text))
    /\ (parsed.raised = "" /\ parse_arg.str /\ ExactBareCall(StripToks(parse_arg.text))) =>
          call = ToolCall(PyStr("get_schema"), BareCallParams)

(***************************************************************************)
(* src/server.py and src/s2.py: the tool server, one operation at a time,   *)
(* on the connection shared by all operations, and the client's reading of  *)
(* what it returns                                                          *)
(***************************************************************************)
MaxOps == 3

Servers == {"server.py", "s2.py"}

\* the functions registered with @mcp.tool()
ToolsOf(script) ==
    IF script = "server.py"
    THEN {"get_schema", "get_data", "insert_data", "delete_data", "update_data"}
    ELSE {"get_schema", "insert_data", "get_data"}

\* the operations that call conn.commit()
Mutating == {"insert_data", "delete_data", "update_data"}

V_John == PyDict(<<KV("name", PyStr("John")), KV("age", PyNum("30"))>>)
V_Id == PyDict(<<KV("id", PyNum("1"))>>)

\* the calls the client makes in this model
ServerCalls ==
    { ToolCall(PyStr("get_schema"), PyDict(<< >>)),
      ToolCall(PyStr("get_data"), PyDict(<<KV("table", PyStr("Customer"))>>)),
      ToolCall(PyStr("insert_data"),
               PyDict(<<KV("table", PyStr("Customer")), KV("data", V_John)>>)),
      ToolCall(PyStr("insert_data"),
               PyDict(<<KV("table", PyStr("Orders")), KV("data", V_Id)>>)),
      ToolCall(PyStr("delete_data"),
               PyDict(<<KV("table", PyStr("Customer")), KV("where", V_Id)>>)),
      ToolCall(PyStr("update_data"),
               PyDict(<<KV("table", PyStr("Customer")), KV("data", V_John),
                        KV("where", V_Id)>>)) }

\* str(e) of the dbapi.Error the database answers a statement or a commit with
DbErrors == {"unique constraint violated", "invalid column name"}

\* the f-strings of the success messages
InsertedMessage(script, table) ==
    IF script = "server.py"
    THEN (IF table = "Customer" THEN "Successfully inserted row into 'Customer'"
          ELSE "Successfully inserted row into 'Orders'")
    ELSE (IF table = "Customer" THEN "Row inserted into 'Customer'"
          ELSE "Row inserted into 'Orders'")

\* the dict each operation returns
Returned(script, name, params) ==
    LET table == Get(params, "table")
    IN  CASE name = "insert_data" ->
               IF script = "server.py"
               THEN PyDict(<<KV("object", PyStr("insert_result")),
                             KV("message", PyStr(InsertedMessage(script, table.s))),
                             KV("data", Get(params, "data"))>>)
               ELSE PyDict(<<KV("message", PyStr(InsertedMessage(script, table.s))),
                             KV("data", Get(params, "data"))>>)
          [] name = "delete_data" ->
               PyDict(<<KV("object", PyStr("delete_result")),
                        KV("message", PyStr("Successfully deleted row(s) from 'Customer'")),
                        KV("where", Get(params, "where"))>>)
          [] name = "update_data" ->
               PyDict(<<KV("object", PyStr("update_result")),
                        KV("message", PyStr("Successfully updated row(s) in 'Customer'")),
                        KV("data", Get(params, "data")),
                        KV("where", Get(params, "where"))>>)
          [] name = "get_data" ->
               IF script = "server.py"
               THEN PyDict(<<KV("object", PyStr("list")), KV("table", table),
                             KV("rows", PyList(<< >>))>>)
               ELSE PyDict(<<KV("table", table), KV("rows", PyList(<< >>))>>)
          [] name = "get_schema" ->
               IF script = "server.py"
               THEN PyDict(<<KV("version", PyStr("1.0")), KV("schema", PyDict(<< >>))>>)
               ELSE PyDict(<<KV("table", PyStr("Customer")), KV("fields", PyList(<< >>))>>)

\* what leaves the operation when the database raised dbapi.Error with the
\* message e: `except dbapi.Error as e: raise HTTPException(status_code=400,
\* detail=str(e))`; get_schema has try/finally and no except clause
Failed(name, e, at) ==
    IF name = "get_schema"
    THEN Result("dbapi.Error", PyNone, e, e, at)
    ELSE Result("HTTPException", PyNum("400"), e, e, at)

\* the variables of the client that serving a call leaves alone
unserved_vars == <<line, pc, memory, cached_schema, query, route, handler, schema_data,
                   response_text, parse_arg, parsed, interpretation, lc_messages, events,
                   appended, turn_base, outcome, error, session_vars, server>>

\* a call arrives: the operation starts with cursor = conn.cursor()
Serve(c) ==
    /\ srv_pc = "idle"
    /\ conn.n < MaxOps
    /\ c.name.s \in ToolsOf(server)
    /\ call' = c
    /\ conn' = [conn EXCEPT !.n = conn.n + 1]
    /\ cursor_open' = cursor_open + 1
    /\ srv_pc' = "execute"
    /\ op_result' = NoResult
    /\ tool_content' = << >>
    /\ answer' = NoAnswer
    /\ UNCHANGED unserved_vars

\* cursor.execute (and fetchall) returned.  A mutating statement's change is
\* pending on the connection until a commit, or committed at once when the
\* connection is in autocommit mode; a query ends here: finally closes the
\* cursor and the dict is returned
ExecuteReturns ==
    /\ srv_pc = "execute"
    /\ IF call.name.s \in Mutating
       THEN /\ conn' = IF conn.autocommit
                       THEN [conn EXCEPT !.committed = conn.committed \cup {conn.n}]
                       ELSE [conn EXCEPT !.pending = conn.pending \cup {conn.n}]
            /\ srv_pc' = "commit"
            /\ UNCHANGED <<cursor_open, op_result>>
       ELSE /\ cursor_open' = cursor_open - 1
            /\ op_result' = Result("return", Returned(server, call.name.s, call.params),
                                   "", "", "")
            /\ srv_pc' = "reply"
            /\ UNCHANGED conn
    /\ UNCHANGED <<unserved_vars, call, tool_content, answer>>

\* cursor.execute raised dbapi.Error: the statement changed nothing; the
\* except clause (where there is one) raises, finally closes the cursor
ExecuteRaises(e) ==
    /\ srv_pc = "execute"
    /\ cursor_open' = cursor_open - 1
    /\ op_result' = Failed(call.name.s, e, "execute")
    /\ srv_pc' = "reply"
    /\ UNCHANGED <<unserved_vars, call, tool_content, answer, conn>>

\* conn.commit() returned: everything pending on the connection is committed
CommitReturns ==
    /\ srv_pc = "commit"
    /\ conn' = [conn EXCEPT !.committed = conn.committed \cup conn.pending,
                            !.pending = {}]
    /\ cursor_open' = cursor_open - 1
    /\ op_result' = Result("return", Returned(server, call.name.s, call.params), "", "", "")
    /\ srv_pc' = "reply"
    /\ UNCHANGED <<unserved_vars, call, tool_content, answer>>

\* conn.commit() raised dbapi.Error: the except clause raises, finally closes
\* the cursor; the connection is left as it is
CommitRaises(e) ==
    /\ srv_pc = "commit"
    /\ cursor_open' = cursor_open - 1
    /\ op_result' = Failed(call.name.s, e, "commit")
    /\ srv_pc' = "reply"
    /\ UNCHANGED <<unserved_vars, call, tool_content, answer, conn>>

RECURSIVE json_dumps(_)
RECURSIVE DumpKids(_, _, _)
\* the members or items from the i-th on, separated by ", "
DumpKids(kids, i, keyed) ==
    IF i > Len(kids) THEN << >>
    ELSE (IF i > 1 THEN <<P(","), SP>> ELSE << >>)
         \o (IF keyed THEN Member(kids[i].k, json_dumps(kids[i].v))
             ELSE json_dumps(kids[i].v))
         \o DumpKids(kids, i + 1, keyed)

\* the returned dict as the text of the tool result
json_dumps(v) ==
    CASE v.t = "str" -> <<S(v.s)>>
      [] v.t = "num" -> <<N(v.s)>>
      [] v.t = "dict" -> <<P("{")>> \o DumpKids(v.kids, 1, TRUE) \o <<P("}")>>
      [] v.t = "list" -> <<P("[")>> \o DumpKids(v.kids, 1, FALSE) \o <<P("]")>>
      [] v.t = "none" -> <<W("null")>>
      [] OTHER -> <<W(v.t)>>

\* tool_result.content as the client gets it: the returned dict as JSON text,
\* or the text that reports the exception
ContentOf(r) ==
    IF r.kind = "return" THEN <<TextItem(json_dumps(r.body))>>
    ELSE <<TextItem(<<W("Error"), SP, W("executing"), SP, W("tool")>>)>>

\* the client has the result: the handler's interpreter for insert_data,
\* delete_data and update_data, _process_tool_result for the others
ClientReceives ==
    /\ srv_pc = "reply"
    /\ tool_content' = ContentOf(op_result)
    /\ answer' = IF call.name.s \in Mutating
                 THEN process_result(call.name.s, ContentOf(op_result), call.params)
                 ELSE process_tool_result(ContentOf(op_result))
    /\ srv_pc' = "idle"
    /\ UNCHANGED <<unserved_vars, call, conn, cursor_open, op_result>>

\* the connection's autocommit mode is the driver's choice: dbapi.connect is
\* called without it
ServerInit ==
    /\ ChatStart
    /\ pc = "read"
    /\ Connected
    /\ server \in Servers
    /\ \E mode \in BOOLEAN : conn = Connection(mode, {}, {}, 0)
    /\ cursor_open = 0
    /\ srv_pc = "idle"
    /\ op_result = NoResult

ServerNext ==
    \/ \E c \in ServerCalls : Serve(c)
    \/ ExecuteReturns
    \/ \E e \in DbErrors : ExecuteRaises(e)
    \/ CommitReturns
    \/ \E e \in DbErrors : CommitRaises(e)
    \/ ClientReceives

ServerSpec == ServerInit /\ [][ServerNext]_vars

\* C26, as claimed: when the statement of insert_data, update_data or
\* delete_data failed, the operation's change is not committed, no pending
\* change is left on the shared connection for a later commit, and the
\* caller gets the database's message as it is
C26_Original ==
    (call.name.s \in Mutating /\ op_result.at = "execute") =>
        /\ conn.n \notin conn.committed
        /\ conn.pending = {}
        /\ op_result.detail = op_result.cause

\* C27, as claimed: whatever the operation, a database error ends it with
\* the structured error of the server boundary, never with the raw database
\* exception
C27_Original ==
    op_result.cause # "" => op_result.kind = "HTTPException"

\* C28, as claimed: whenever the server's insert_data succeeded, the client's
\* insert interpreter answers with the success sentence, naming the table
\* and counting the keys of the directive's data
C28_Original ==
    (srv_pc = "idle" /\ call.name = PyStr("insert_data") /\ op_result.kind = "return") =>
        /\ conn.n \in conn.committed
        /\ answer.kind = "op_ok"
        /\ answer.table = Get(call.params, "table").s
        /\ answer.count = Len(Get(call.params, "data").kids)

(***************************************************************************)
(* get_schema with either value of force_refresh: the turns of src/c3.py    *)
(* on the specialized routes, each ended by the model's reply or exception  *)
(***************************************************************************)
\* the lines that the router sends to get_schema
SchemaLines == {typed \in Lines : RouteOf(Strip(typed)) \in Specialized}

SchemaNext ==
    \/ \E typed \in SchemaLines, force_refresh \in BOOLEAN : StartTurn(typed, force_refresh)
    \/ \E tool_result \in SchemaResults : SchemaReturns(tool_result)
    \/ SchemaRaises
    \/ HandlerModelReturns(R_Plain)
    \/ HandlerModelRaises
    \/ Model1Returns(R_Plain)
    \/ Model1Raises

SchemaSpec == Init /\ [][SchemaNext]_vars

\* C31, as claimed: a get_schema call with force_refresh whose tool call
\* raises returns None and leaves the cache as it was; after it, a call
\* without force_refresh returns what is cached without a tool call; and a
\* schema stored as {raw_schema: text} is what the call returns and the
\* router runs the handler with it
C31_Original ==
    [][/\ (/\ pc = "get_schema"
           /\ Occurs(events, "force_refresh")
           /\ Occurs(events', "schema_raise"))
          => /\ schema_data' = PyNone
             /\ cached_schema' = cached_schema
       /\ (/\ pc = "read"
           /\ Occurs(events, "force_refresh")
           /\ Occurs(events, "schema_raise")
           /\ cached_schema # PyNone
           /\ route' \in Specialized
           /\ ~Occurs(events', "force_refresh"))
          => /\ ~Occurs(events', "schema_call")
             /\ schema_data' = cached_schema
       /\ (/\ pc = "get_schema"
           /\ IsDict(schema_data')
           /\ HasKey(schema_data', "raw_schema"))
          => /\ cached_schema' = schema_data'
             /\ handler' \in Specialized
             /\ pc' = "handler_llm"]_vars

(***************************************************************************)
(* src/c2.py: the client that fetches the table schema when it connects and *)
(* filters the fields of an "add this data" query against the Customer      *)
(* columns before the model is called.  self.schema is held in              *)
(* cached_schema.                                                           *)
(***************************************************************************)
\* turns that store an exchange, explored per session of src/c2.py
MaxC2Turns == 2

\* [A-Za-z0-9\s\-]
KeyChars ==
    {UpperChars[i] : i \in 1..Len(UpperChars)} \cup {LowerChars[i] : i \in 1..Len(LowerChars)}
        \cup {"0", "1", "2", "3", "4", "5", "6", "7", "8", "9", "-", " ", "\t", "\n"}
IsKeyChar(c) == c \in KeyChars

\* ([A-Za-z0-9\s\-]+?): tried at position s: the index of the colon that
\* ends the key, 0 when the characters from s to the next colon are not all
\* of the class or there is none
KeyColon(text, s) ==
    IF \E c \in (s+1)..Len(text) :
           text[c] = ":" /\ \A j \in s..(c-1) : IsKeyChar(text[j])
    THEN CHOOSE c \in (s+1)..Len(text) :
             text[c] = ":" /\ \A j \in s..(c-1) : IsKeyChar(text[j])
    ELSE 0

\* (?=[A-Za-z0-9\s\-]+?:|$) at position p
FieldLookahead(text, p) == p = Len(text) + 1 \/ KeyColon(text, p) # 0

\* re.findall(pattern, text) from position pos on: the (key, value) groups
\* of the leftmost match and of the matches after it; \s* takes the blanks
\* after the colon, (.*?) the fewest characters that the lookahead allows
RECURSIVE FindFields(_, _)
FindFields(text, pos) ==
    IF \E s \in pos..Len(text) : KeyColon(text, s) # 0
    THEN LET s == CHOOSE i \in pos..Len(text) :
                      /\ KeyColon(text, i) # 0
                      /\ \A h \in pos..(i-1) : KeyColon(text, h) = 0
             c == KeyColon(text, s)
             w == IF \E i \in (c+1)..Len(text) : ~IsSpaceChar(text[i])
                  THEN CHOOSE i \in (c+1)..Len(text) :
                           /\ ~IsSpaceChar(text[i])
                           /\ \A h \in (c+1)..(i-1) : IsSpaceChar(text[h])
                  ELSE Len(text) + 1
             e == CHOOSE i \in w..(Len(text) + 1) :
                      /\ FieldLookahead(text, i)
                      /\ \A h \in w..(i-1) : ~FieldLookahead(text, h)
         IN  <<KV(SubSeq(text, s, c - 1), SubSeq(text, w, e - 1))>>
                 \o FindFields(text, e)
    ELSE << >>

\* {key.strip(): value.strip() for key, value in matches}
RECURSIVE StripFields(_, _)
StripFields(matches, i) ==
    IF i = 0 THEN << >>
    ELSE DictPut(StripFields(matches, i - 1), Strip(matches[i].k), Strip(matches[i].v))

\* self.extract_fields(text)
extract_fields(text) ==
    LET matches == FindFields(text, 1)
    IN  StripFields(matches, Len(matches))

\* the column names of the servers' schemas as the characters a query holds
Chars(name) ==
    CASE name = "name" -> <<"n","a","m","e">>
      [] name = "age" -> <<"a","g","e">>
      [] OTHER -> <<"?">>

\* key in value, for what json.loads returned
InValue(key, v) ==
    CASE v.t = "dict" -> HasKey(v, key)
      [] v.t = "list" -> \E i \in 1..Len(v.kids) : v.kids[i].v = PyStr(key)
      [] OTHER -> FALSE

\* fetch_table_schema after call_tool returned: {} unless an item of the
\* content is JSON with a "schema" member; the last such item is kept
fetch_table_schema(content) ==
    LET held(i) == /\ content[i].hasText
                   /\ json_loads(content[i].text).ok
                   /\ InValue("schema", json_loads(content[i].text).v)
    IN  IF \E i \in 1..Len(content) : held(i)
        THEN Get(json_loads(content[CHOOSE i \in 1..Len(content) :
                                        /\ held(i)
                                        /\ \A h \in (i+1)..Len(content) : ~held(h)].text).v,
                 "schema")
        ELSE PyDict(<< >>)

Columns(exc, names) == [raised |-> exc, names |-> names]

\* valid_columns: [] unless "Customer" is in self.schema, then the name of
\* each of its fields; a Customer entry without "fields", or a field without
\* "name", raises KeyError
valid_columns(schema) ==
    IF ~InValue("Customer", schema) THEN Columns("", << >>)
    ELSE IF ~IsDict(schema) \/ ~IsDict(Get(schema, "Customer")) THEN Columns("TypeError", << >>)
    ELSE IF ~HasKey(Get(schema, "Customer"), "fields") THEN Columns("KeyError", << >>)
    ELSE LET fields == Get(Get(schema, "Customer"), "fields").kids
         IN  IF \E i \in 1..Len(fields) : ~IsDict(fields[i].v)
             THEN Columns("TypeError", << >>)
             ELSE IF \E i \in 1..Len(fields) : ~HasKey(fields[i].v, "name")
             THEN Columns("KeyError", << >>)
             ELSE Columns("", [i \in 1..Len(fields) |-> Get(fields[i].v, "name")])

\* k in valid_columns
IsColumn(k, names) ==
    \E i \in 1..Len(names) : names[i].t = "str" /\ Chars(names[i].s) = k

\* "\n".join([f"{k}: {v}" for k, v in filtered_data.items()])
RECURSIVE JoinFields(_, _)
JoinFields(fields, i) ==
    IF i > Len(fields) THEN << >>
    ELSE fields[i].k \o <<":", " ">> \o fields[i].v
             \o (IF i < Len(fields) THEN <<"\n">> ELSE << >>)
             \o JoinFields(fields, i + 1)

\* "add this data" in query.lower() or "insert this data" in query.lower()
IsAddQuery(q) ==
    \/ Contains(Lower(q), <<"a","d","d"," ","t","h","i","s"," ","d","a","t","a">>)
    \/ Contains(Lower(q), <<"i","n","s","e","r","t"," ","t","h","i","s"," ","d","a","t","a">>)

Prelude(how, q) == [how |-> how, query |-> q]

\* filtered_data, the return on an empty filtered_data, the rewritten query
FilterFields(q, extracted_data, columns) ==
    LET Valid(kv) == IsColumn(kv.k, columns.names)
        filtered_data == SelectSeq(extracted_data, Valid)
    IN  IF columns.raised # "" THEN Prelude(columns.raised, q)
        ELSE IF filtered_data = << >> THEN Prelude("warn", q)
        ELSE Prelude("call", <<"A","d","d"," ","t","h","i","s"," ","d","a","t","a"," ","t","o"," ","t","h","e"," ","C","u","s","t","o","m","e","r"," ","t","a","b","l","e",":","\n">> \o JoinFields(filtered_data, 1))

\* process_query before the system prompt is built: "warn" is the early
\* return, "call" goes on to the model with the query (rewritten or not)
QueryPrelude(q, schema) ==
    LET extracted_data == extract_fields(q)
    IN  IF IsAddQuery(q) /\ extracted_data # << >>
        THEN FilterFields(q, extracted_data, valid_columns(schema))
        ELSE Prelude("call", q)

\* the get_schema tool of src/server.py: the tables of the database schema
\* {"version": "1.0", "schema": {"Customer": {"type": "table", "fields":
\*   [{"name": "name", "type": "nvarchar"}, {"name": "age", "type": "integer"}]}}}
TR_ServerSchema ==
    <<TextItem(JObject(Member("version", <<S("1.0")>>) \o <<P(","), SP>>
        \o Member("schema", JObject(Member("Customer",
              JObject(Member("type", <<S("table")>>) \o <<P(","), SP>>
                 \o Member("fields", <<P("[")>>
                       \o JObject(Member("name", <<S("name")>>) \o <<P(","), SP>>
                                     \o Member("type", <<S("nvarchar")>>))
                       \o <<P(","), SP>>
                       \o JObject(Member("name", <<S("age")>>) \o <<P(","), SP>>
                                     \o Member("type", <<S("integer")>>))
                       \o <<P("]")>>)))))))>>
\* the same for a database schema that holds no Customer table
\* {"version": "1.0", "schema": {"Orders": {"type": "table", "fields":
\*   [{"name": "name", "type": "nvarchar"}]}}}
TR_OrdersSchema ==
    <<TextItem(JObject(Member("version", <<S("1.0")>>) \o <<P(","), SP>>
        \o Member("schema", JObject(Member("Orders",
              JObject(Member("type", <<S("table")>>) \o <<P(","), SP>>
                 \o Member("fields", <<P("[")>>
                       \o JObject(Member("name", <<S("name")>>) \o <<P(","), SP>>
                                     \o Member("type", <<S("nvarchar")>>))
                       \o <<P("]")>>)))))))>>
\* the get_schema tool of src/s2.py
\* {"table": "Customer", "fields": [{"name": "name", "type": "nvarchar"}]}
TR_S2Schema ==
    <<TextItem(JObject(Member("table", <<S("Customer")>>) \o <<P(","), SP>>
        \o Member("fields", <<P("[")>>
              \o JObject(Member("name", <<S("name")>>) \o <<P(","), SP>>
                            \o Member("type", <<S("nvarchar")>>))
              \o <<P("]")>>)))>>

\* what the servers' get_schema answers the fetch with (also: no content,
\* and the text of a failed tool)
C2SchemaResults == { TR_ServerSchema, TR_OrdersSchema, TR_S2Schema, TR_Empty, TR_ErrorText }

\* lines typed at the prompt of src/c2.py
C2Lines ==
    { <<"q","u","i","t">>,
      <<"h","i">>,
      <<" ","a","d","d"," ","t","h","i","s"," ","d","a","t","a">>,
      <<"A","d","d"," ","t","h","i","s"," ","d","a","t","a",":"," ","n","a","m","e",":"," ","A","l">>,
      <<"a","d","d"," ","t","h","i","s"," ","d","a","t","a",":"," ","n","a","m","e",":"," ","A","l"," ","x",":"," ","1">>,
      <<"i","n","s","e","r","t"," ","t","h","i","s"," ","d","a","t","a",":"," ","x",":"," ","1">>,
      <<"a","d","d"," ","t","h","i","s"," ","d","a","t","a"," ","n","a","m","e",":"," ","A","l">>,
      <<"n","a","m","e",":"," ","A","l">> }

C2Replies == { R_Plain, R_GetData, R_Insert, R_BadJson }

\* the fixed warning that process_query returns
NoMatchWarning == Answer("no_match", "", "", 0, << >>)

\* main at the last await of connect_to_server, fetch_table_schema's call_tool
C2Init ==
    /\ ChatStart
    /\ pc = "fetch_schema"
    /\ Connected
    /\ server = "server.py"
    /\ ServerIdle

\* call_tool("get_schema", {}) returned: self.schema is set, chat_loop starts
FetchTableSchemaReturns(tool_result) ==
    /\ pc = "fetch_schema"
    /\ cached_schema' = fetch_table_schema(tool_result)
    /\ pc' = "read"
    /\ UNCHANGED <<line, memory, query, route, handler, schema_data, response_text,
                   parse_arg, parsed, call, tool_content, interpretation, lc_messages,
                   events, appended, turn_base, outcome, error, answer, session_vars,
                   server_vars>>

\* call_tool raised: connect_to_server raises, main's finally runs
FetchTableSchemaRaises ==
    /\ pc = "fetch_schema"
    /\ Teardown("ToolError")
    /\ UNCHANGED <<turn_vars, schema_text, server_vars>>

\* Mutant of C2Turn: the warning is returned after the model was called and
\* the exchange was stored.
C2Turn_WarnAfterCall(typed, prelude) ==
    /\ line' = typed
    /\ turn_base' = appended
    /\ route' = "generic"
    /\ handler' = "none"
    /\ schema_data' = PyNone
    /\ response_text' = << >>
    /\ parse_arg' = NoArg
    /\ parsed' = NotParsed
    /\ call' = NoCall
    /\ tool_content' = << >>
    /\ interpretation' = << >>
    /\ query' = prelude.query
    /\ IF prelude.how = "warn"
       THEN /\ pc' = AfterTurn("answer")
            /\ outcome' = "answer"
            /\ answer' = NoMatchWarning
            /\ error' = ""
            /\ events' = <<"start", "llm_call", "llm_done", "append_user",
                           "append_assistant", "answer">>
            /\ lc_messages' = GenericRequest(memory, prelude.query)
            /\ memory' = StoreExchange(memory, appended)
            /\ appended' = appended + 2
       ELSE IF prelude.how = "call"
       THEN /\ pc' = "llm1"
            /\ outcome' = "none"
            /\ answer' = NoAnswer
            /\ error' = ""
            /\ events' = <<"start", "llm_call">>
            /\ lc_messages' = GenericRequest(memory, prelude.query)
            /\ UNCHANGED <<memory, appended>>
       ELSE /\ pc' = AfterTurn("error")
            /\ outcome' = "error"
            /\ answer' = NoAnswer
            /\ error' = prelude.how
            /\ events' = <<"start", "error">>
            /\ lc_messages' = NoRequest
            /\ UNCHANGED <<memory, appended>>

\* process_query up to its first return or await, given the prelude's outcome
C2Turn(typed, prelude) ==
    /\ line' = typed
    /\ turn_base' = appended
    /\ route' = "generic"
    /\ handler' = "none"
    /\ schema_data' = PyNone
    /\ response_text' = << >>
    /\ parse_arg' = NoArg
    /\ parsed' = NotParsed
    /\ call' = NoCall
    /\ tool_content' = << >>
    /\ interpretation' = << >>
    /\ query' = prelude.query
    /\ UNCHANGED <<memory, appended>>
    /\ IF prelude.how = "warn"
       THEN /\ pc' = AfterTurn("answer")
            /\ outcome' = "answer"
            /\ answer' = NoMatchWarning
            /\ error' = ""
            /\ events' = <<"start", "answer">>
            /\ lc_messages' = NoRequest
       ELSE IF prelude.how = "call"
       THEN /\ pc' = "llm1"
            /\ outcome' = "none"
            /\ answer' = NoAnswer
            /\ error' = ""
            /\ events' = <<"start", "llm_call">>
            /\ lc_messages' = GenericRequest(memory, prelude.query)
       ELSE /\ pc' = AfterTurn("error")
            /\ outcome' = "error"
            /\ answer' = NoAnswer
            /\ error' = prelude.how
            /\ events' = <<"start", "error">>
            /\ lc_messages' = NoRequest

\* chat_loop read a line that is not quit or exit: process_query(query)
C2ReadQuery(typed) ==
    /\ pc = "read"
    /\ appended < 2 * MaxC2Turns
    /\ ~IsQuit(Strip(typed))
    /\ C2Turn(typed, QueryPrelude(Strip(typed), cached_schema))
    /\ UNCHANGED <<cached_schema, session_vars, server_vars>>

\* model call #1 returned: the exchange is stored and trimmed, the reply is
\* parsed as it is, and the directive's tool is called
C2Model1Returns(reply) ==
    /\ pc = "llm1"
    /\ response_text' = reply
    /\ memory' = StoreExchange(memory, appended)
    /\ appended' = appended + 2
    /\ GenericParsed([str |-> TRUE, text |-> reply], client_parse_tool_response(reply))
    /\ UNCHANGED <<line, turn_base, tool_content, interpretation, lc_messages,
                   cached_schema, query, route, handler, schema_data, session_vars,
                   server_vars>>

C2Next ==
    \/ \E tool_result \in C2SchemaResults : FetchTableSchemaReturns(tool_result)
    \/ FetchTableSchemaRaises
    \/ \E typed \in C2Lines : ClientReadQuit(typed)
    \/ \E typed \in C2Lines : C2ReadQuery(typed)
    \/ \E reply \in C2Replies : C2Model1Returns(reply)
    \/ Model1Raises
    \/ \E tool_result \in ToolResults : ToolReturns(tool_result)
    \/ ToolRaises
    \/ \E text \in Interpretations : Model2Returns(text)
    \/ Model2Raises

SpecC2 == C2Init /\ [][C2Next]_vars

\* fields are extracted from the add query q and none of them names a
\* column of the Customer table of the schema
NoColumnNamed(q, schema) ==
    LET fields == extract_fields(q)
        names == valid_columns(schema).names
    IN  /\ IsAddQuery(q)
        /\ fields # << >>
        /\ \A i \in 1..Len(fields) : ~IsColumn(fields[i].k, names)

\* C32: in src/c2.py a turn whose query holds "add this data" or "insert
\* this data", from which fields are extracted of which none names a column
\* of the Customer table in the fetched schema, returns the fixed warning at
\* once, with no model call, no tool call and the memory as it was; every
\* other turn goes to model call #1, which is made once, at the start of
\* the turn
C32_WarningOrModelCall ==
    [][/\ (pc = "read" /\ pc' # "exited") =>
             IF NoColumnNamed(Strip(line'), cached_schema)
             THEN /\ pc' = "read"
                  /\ outcome' = "answer"
                  /\ answer' = NoMatchWarning
                  /\ memory' = memory
                  /\ appended' = appended
                  /\ ~Occurs(events', "llm_call")
                  /\ ~Occurs(events', "tool_call")
             ELSE /\ pc' = "llm1"
                  /\ Count(events', "llm_call") = 1
                  /\ memory' = memory
       /\ pc' = "llm1" => pc = "read"
       /\ answer' = NoMatchWarning => pc = "read"]_vars

\* C32 witness: with the Customer columns fetched and one exchange in
\* memory, a turn whose fields name no column has returned the warning
C32_Witness ==
    /\ pc = "read"
    /\ answer = NoMatchWarning
    /\ events = <<"start", "answer">>
    /\ Len(memory) = 2
    /\ valid_columns(cached_schema).names # << >>
    /\ NoColumnNamed(Strip(line), cached_schema)

(***************************************************************************)
(* The chat loop of src/c3.py under the assumption that every awaited call  *)
(* of the tool channel and every call of the model returns or raises        *)
(***************************************************************************)
\* generic turns explored per session when progress is checked
MaxFairTurns == 2

\* chat_loop reads a line and process_query starts
FairRead(typed) ==
    /\ appended < 2 * MaxFairTurns
    /\ ReadQuery(typed)

\* the pending call of the turn (get_schema, a model call, a tool call)
\* returns or raises, and process_query runs on to its next call or its end
Completes ==
    \/ SchemaRaises
    \/ HandlerModelRaises
    \/ HandlerToolRaises
    \/ Model1Raises
    \/ ToolRaises
    \/ Model2Raises
    \/ \E tool_result \in SchemaResults : SchemaReturns(tool_result)
    \/ \E tool_result \in ToolResults : HandlerToolReturns(tool_result)
    \/ \E tool_result \in ToolResults : ToolReturns(tool_result)
    \/ \E text \in Interpretations : Model2Returns(text)
    \/ \E reply \in Replies : HandlerModelReturns(reply)
    \/ \E reply \in Replies : Model1Returns(reply)

FairNext ==
    \/ \E typed \in Lines : ReadQuit(typed)
    \/ \E typed \in Lines : FairRead(typed)
    \/ Completes

\* no call stays pending forever
FairSpec == Init /\ [][FairNext]_vars /\ WF_vars(Completes)

\* C33: if every model call and every tool call returns or raises, a turn
\* that has started ends, with an answer or with a reported error, and the
\* loop is back at reading the next line
C33_TurnEnds ==
    (pc \notin {"read", "closed"})
        ~> (/\ pc = "read"
            /\ \/ outcome = "answer" /\ answer # NoAnswer
               \/ outcome = "error" /\ error # "")

\* C33 witness: a turn that awaited get_schema, model call #1, the tool and
\* model call #2 has ended with an answer and the loop reads again
C33_Witness ==
    /\ pc = "read"
    /\ outcome = "answer"
    /\ Occurs(events, "schema_call")
    /\ Occurs(events, "tool_done")
    /\ Count(events, "llm_call") = 2

=============================================================================
